---- MODULE Spec2Model ----
(***************************************************************************)
(* A model of libproper: the layer stack and its event dispatch, the       *)
(* swapchain lifecycle of VulkanContext::do_frame, the Scene / Entity data *)
(* model and the forward system's secondary command buffer recording.      *)
(*                                                                         *)
(* Three specifications share the module:                                  *)
(*   Spec        the layer stack and the frame / swapchain lifecycle       *)
(*   SpecScene   Scene::add, Scene::instantiate_models, Entity             *)
(*   SpecRecord  ForwardSystem::record_secondary_buffers on built scenes   *)
(* An Option<T> of the source is a sequence: <<>> is None, <<x>> Some(x).  *)
(***************************************************************************)
EXTENDS Integers, Sequences, FiniteSets, TLC

(***************************************************************************)
(* Bounds of the model.                                                    *)
(***************************************************************************)
\* longest layer stack built with push
MaxLayers == 3
\* window inner sizes the window system may report: 1..NumSizes
NumSizes == 2
\* a swapchain holds 1..MaxImages images
MaxImages == 2
\* invalidate_surface calls counted between two frames
MaxInvalidate == 2
\* material templates registered: their ids are 0..NumTemplates-1
NumTemplates == 2
\* entities handed to an empty scene
MaxEntities == 3
\* the largest whole chunk length of a prepared group
MaxChunkLen == 2
\* models the application makes
MaxModels == 3
\* pipelines a recording reads under one guard
MaxReads == 2
\* the largest delta of a rotate_angles call, in sixths of PI
MaxTurn == 18
\* callbacks for events between two RedrawEventsCleared callbacks
MaxCallbacks == 2

\* forward.rs: group.entities.chunks(num_objects / 12)
ChunkDivisor == 12

VARIABLES
    \* Application.layers / LayerManager.layers: the stack, in push order
    layers,
    \* VulkanContext.need_swapchain_recreation
    need_swapchain_recreation,
    \* VulkanContext.swapchain: its create-info extent and its images
    swapchain,
    \* VulkanContext.swapchain_images: one view per image; a view names the
    \* extent and the index of the image it was made from
    swapchain_images,
    \* VulkanContext.viewport
    viewport,
    \* surface.window().inner_size()
    window_size,
    \* the Layer calls and device operations made by the last operation
    log,
    \* the last operation and what it returned
    last_op,
    \* where the running operation is: its stage, the layer it is at, and
    \* the event it delivers
    stage,
    at,
    event,
    \* invalidate_surface calls since the last do_frame began
    invalidate_calls,
    \* Scene.data: the MaterialEntityGroups, and Scene.loading_list
    data,
    loading_list,
    \* MaterialRegistry: its templates (data) and its viewport
    material_registry,
    \* the Vec of secondary command buffers of the last recording
    cbs,
    \* the last operation on the scene and what it returned
    scene_op,
    \* the entities Scene::add was called with, in call order
    add_calls,
    \* the identities of the entities ever handed to the scene
    handed,
    \* in_future of do_frame: the GPU work chained so far, in its order
    in_future,
    \* the on_draw calls of the frame: the layer, the future it was given and
    \* the future it returned
    draw_calls,
    \* the chain then_signal_fence_and_flush handed to the queue in the frame
    submitted,
    \* the winit event the event-loop callback of Application::run was last
    \* invoked with
    callback,
    \* the ControlFlow the event loop hands to the callback
    flow,
    \* mouse_grabbed of Application::run
    mouse_grabbed,
    \* the on_tick calls and the callback invocations since the last do_frame
    \* call, what they were at that call, and the do_frame calls (up to two)
    ticked,
    \* the Model values the application holds, in the order they were made
    models,
    \* the last operation on a resource (a model, the material registry) and
    \* what it returned
    resource_op,
    \* the Mutex around the material registry: free, or who locked it last
    registry_lock,
    \* a recording that holds the registry's guard and the pipelines it has
    \* read through it
    reader,
    \* a recreate_pipelines call that holds the guard and the template it is at
    writer,
    \* the Camera: pitch and yaw, in tenths of a degree
    camera,
    \* the Mutexes of the shared resources: who holds the guard of each
    locks,
    \* the layer callbacks that take locks: the last lock each one took and
    \* the group its recording is at
    threads

lock_vars == <<registry_lock, reader, writer>>

resource_vars == <<models, resource_op, registry_lock, reader, writer>>

world_vars == <<camera, locks, threads>>

scene_vars == <<data, loading_list, material_registry, cbs, scene_op, add_calls, handed,
                models, resource_op, registry_lock, reader, writer, camera,
                locks, threads>>

run_vars == <<callback, flow, mouse_grabbed, ticked>>

future_vars == <<in_future, draw_calls, submitted>>

frame_vars == <<layers, need_swapchain_recreation, swapchain, swapchain_images,
                viewport, window_size, log, last_op, stage, at, event,
                invalidate_calls, callback, flow, mouse_grabbed, ticked,
                in_future, draw_calls, submitted>>

vars == <<layers, need_swapchain_recreation, swapchain, swapchain_images,
          viewport, window_size, log, last_op, stage, at, event,
          invalidate_calls, callback, flow, mouse_grabbed, ticked,
          in_future, draw_calls, submitted,
          data, loading_list, material_registry, cbs,
          scene_op, add_calls, handed, models, resource_op,
          registry_lock, reader, writer, camera, locks, threads>>

(***************************************************************************)
(* Events and Layer calls.                                                 *)
(***************************************************************************)
\* event.rs: the Event variants; only SwapchainInvalidated carries the
\* swapchain's views, the viewport and the dimensions
MakeEvent(kind, images, vp, dims) ==
    [kind |-> kind, swapchain_images |-> images, viewport |-> vp, dimensions |-> dims]

PlainEvent(kind) == MakeEvent(kind, <<>>, 0, 0)

NoEvent == PlainEvent("none")

\* the events notify_layers / notify_all are called with
DispatchedKinds == {"MouseMotion", "GameEvent"}

\* a call of a Layer method (layer: its place in the stack, from 1) or a
\* device operation of do_frame (layer 0)
Call(op, layer, ev, ret) == [op |-> op, layer |-> layer, event |-> ev, ret |-> ret]

\* the layers push may add: a layer behind the Layer trait object
PushKinds == {"Custom"}

\* Layer::on_event -> Result<bool, Error>: what a layer may give for an event
on_event(layer, ev) == {"false", "true", "err"}

\* the layers Application::new makes
ApplicationKinds == {"World", "Logic", "Gui"}

\* Layer::on_tick -> Result<(), Error>: WorldLayer, LogicLayer and GuiLayer
\* always give Ok(()); a layer behind the trait object may give an error
on_tick(layer) == IF layer \in ApplicationKinds THEN {"ok"} ELSE {"ok", "err"}

\* Layer::on_draw -> Result<Box<dyn GpuFuture>, Error>: what a layer may give
on_draw(layer) == {"ok", "err"}

\* a future is the GPU work chained in it, in the order the queue runs it: 0
\* is the acquisition of the swapchain image, i the command buffer of layer i
AcquireFuture == <<0>>

\* the presentation of the image
PresentWork == 0 - 1

\* in_future.then_execute(queue, cb)
then_execute(future, work) == Append(future, work)

\* sync::now(device).join(in_future).then_swapchain_present(..)
then_swapchain_present(future) == Append(future, PresentWork)

\* an on_draw that returns a future of its own work alone
draw_future_detached(layer, i, future) == <<i>>

\* the future an on_draw returns with Ok: LogicLayer gives in_future back,
\* WorldLayer executes its command buffer after it, GuiLayer draws on the
\* image after it
draw_future(layer, i, future) ==
    IF layer = "Logic" THEN future ELSE then_execute(future, i)

\* create_viewport: the viewport is derived from the window's inner size
create_viewport(size) == size

\* ImageView::new_default over the images of a swapchain
ViewsOf(sc) == [i \in 1..sc.image_count |-> [image_extent |-> sc.image_extent, image |-> i]]

(***************************************************************************)
(* The loops over the stack, one iteration at a time. A step says where    *)
(* the operation goes after layer i gave `result`: to another layer, to    *)
(* the next stage, or out of the operation with what it returns ("panic"   *)
(* is an unwrap of an error).                                              *)
(***************************************************************************)
Goto(to, i) == [stage |-> to, at |-> i, ret |-> "run"]

Leave(ret) == [stage |-> "idle", at |-> 0, ret |-> ret]

\* notify_layers without the break on a consumed event
notify_layers_no_break(i, result) ==
    IF result = "err" THEN Leave("panic")
    ELSE IF i > 1 THEN Goto("notify", i - 1)
    ELSE Leave("Ok")

\* for layer in layers.iter_mut().rev() { if layer.on_event(..).unwrap() { break; } }
notify_layers(i, result) ==
    IF result = "err" THEN Leave("panic")
    ELSE IF result = "true" THEN Leave("Ok")
    ELSE IF i > 1 THEN Goto("notify", i - 1)
    ELSE Leave("Ok")

\* for layer in self.layers.iter_mut().rev() { if layer.on_event(..)? { break; } }
notify_all(i, result) ==
    IF result = "err" THEN Leave("Err")
    ELSE IF result = "true" THEN Leave("Ok")
    ELSE IF i > 1 THEN Goto("notify", i - 1)
    ELSE Leave("Ok")

\* where a loop over n layers begins: .rev() at the last pushed layer
FirstRev(n) == IF n = 0 THEN Leave("Ok") ELSE Goto("notify", n)

\* the broadcast loop stopping at a layer that consumed the event
broadcast_breaks(i, n, result) ==
    IF result = "err" THEN Leave("Err")
    ELSE IF result = "false" /\ i < n THEN Goto("broadcast", i + 1)
    ELSE Goto("acquire", 0)

\* for layer in layers.iter_mut() { layer.on_event(&event, flow)?; }
broadcast(i, n, result) ==
    IF result = "err" THEN Leave("Err")
    ELSE IF i < n THEN Goto("broadcast", i + 1)
    ELSE Goto("acquire", 0)

\* a suboptimal acquisition that leaves the flag as it was
mark_suboptimal_ignored(flag, result) == flag

\* if suboptimal { self.need_swapchain_recreation = true; }
mark_suboptimal(flag, result) == flag \/ result = "suboptimal"

\* a failed acquisition that goes on to the draw chain
acquire_step_ignores_err(result, image_index, num_images, n) ==
    IF n = 0 THEN Goto("present", 0) ELSE Goto("draw", 1)

\* acquire_next_image(..)?, then self.swapchain_images[image_index], then the
\* draw loop over n layers
acquire_step(result, image_index, num_images, n) ==
    IF result = "err" THEN Leave("Err")
    ELSE IF image_index + 1 > num_images THEN Leave("panic")
    ELSE IF n = 0 THEN Goto("present", 0)
    ELSE Goto("draw", 1)

\* the draw loop going on after a layer's error
draw_chain_continues(i, n, result) ==
    IF i < n THEN Goto("draw", i + 1) ELSE Goto("present", 0)

\* for layer in layers.iter_mut() { in_future = layer.on_draw(in_future, &frame)?; }
draw_chain(i, n, result) ==
    IF result = "err" THEN Leave("Err")
    ELSE IF i < n THEN Goto("draw", i + 1)
    ELSE Goto("present", 0)

\* the tick loop leaving after the first layer
tick_first_only(i, n, result) ==
    IF result = "err" THEN Leave("panic") ELSE Goto("match", 0)

\* for layer in self.layers.iter_mut() { layer.on_tick(delta).unwrap(); }
tick(i, n, result) ==
    IF result = "err" THEN Leave("panic")
    ELSE IF i < n THEN Goto("tick", i + 1)
    ELSE Goto("match", 0)

\* invalidate_surface that flips the flag
invalidate_surface_flips(flag) == ~flag

\* VulkanContext::invalidate_surface, on the flag
invalidate_surface(flag) == TRUE

\* recreate_swapchain: the new extent is the window's inner size; the
\* swapchain is replaced, then the views are rebuilt from its images, then the
\* viewport is made anew; either creation may fail
recreate_swapchain(sc, images, vp, win) ==
    {[ok |-> FALSE, swapchain |-> sc, swapchain_images |-> images,
      viewport |-> vp, dimensions |-> win]}
    \cup UNION {
        LET new == [image_extent |-> win, image_count |-> count]
        IN  {[ok |-> FALSE, swapchain |-> new, swapchain_images |-> images,
              viewport |-> vp, dimensions |-> win],
             [ok |-> TRUE, swapchain |-> new, swapchain_images |-> ViewsOf(new),
              viewport |-> create_viewport(win), dimensions |-> win]}
        : count \in 1..MaxImages}

(***************************************************************************)
(* The operations on the layer stack and the context.                      *)
(***************************************************************************)
\* an operation of the application or the context, what it returned ("run"
\* while it runs) and, for do_frame, the invalidate_surface calls made since
\* the frame before
FrameOp(op, ret) == [op |-> op, ret |-> ret, invalidated |-> 0]

\* an operation on the scene and what it returned
Op(op, ret) == [op |-> op, ret |-> ret]

Idle == stage = "idle" /\ last_op.ret /= "panic"

context_vars == <<need_swapchain_recreation, swapchain, swapchain_images, viewport>>

\* the operation moves as a step says
Advance(step) ==
    /\ stage' = step.stage
    /\ at' = step.at
    /\ last_op' = [last_op EXCEPT !.ret = step.ret]

\* VulkanContext::new_windowed: the swapchain, its views and the viewport are
\* made for the window's size; no recreation is needed; the event loop has
\* not called back yet
ContextInit ==
    /\ need_swapchain_recreation = FALSE
    /\ window_size = 1
    /\ swapchain = [image_extent |-> window_size, image_count |-> MaxImages]
    /\ swapchain_images = ViewsOf(swapchain)
    /\ viewport = create_viewport(window_size)
    /\ log = <<>>
    /\ last_op = FrameOp("new", "Ok")
    /\ stage = "idle"
    /\ at = 0
    /\ event = NoEvent
    /\ invalidate_calls = 0
    /\ callback = [event |-> "none"]
    /\ flow = "Poll"
    /\ mouse_grabbed = FALSE
    /\ ticked = [ticks |-> 0, callbacks |-> 0, frames |-> 0,
                 at_frame |-> [ticks |-> 0, callbacks |-> 0]]
    /\ in_future = <<>>
    /\ draw_calls = <<>>
    /\ submitted = <<>>

\* the context is made and the stack is empty
FrameInit ==
    /\ layers = <<>>
    /\ ContextInit

\* LayerManager::push (Application::new pushes onto the Vec the same way)
Push(kind) ==
    /\ Idle
    /\ Len(layers) < MaxLayers
    /\ layers' = Append(layers, kind)
    /\ log' = <<>>
    /\ last_op' = FrameOp("push", "Ok")
    /\ UNCHANGED <<context_vars, window_size, stage, at, event, invalidate_calls>>
    /\ UNCHANGED run_vars
    /\ UNCHANGED future_vars
    /\ UNCHANGED scene_vars

\* Application::notify_layers is called with an event
NotifyLayersBegin(kind) ==
    /\ Idle
    /\ log' = <<>>
    /\ event' = PlainEvent(kind)
    /\ LET step == FirstRev(Len(layers))
       IN  /\ stage' = step.stage
           /\ at' = step.at
           /\ last_op' = FrameOp("notify_layers", step.ret)
    /\ UNCHANGED <<layers, context_vars, window_size, invalidate_calls>>
    /\ UNCHANGED run_vars
    /\ UNCHANGED future_vars
    /\ UNCHANGED scene_vars

\* one iteration of the loop of Application::notify_layers
NotifyLayersStep ==
    /\ stage = "notify"
    /\ last_op.op = "notify_layers"
    /\ \E result \in on_event(layers[at], event) :
        /\ log' = Append(log, Call("on_event", at, event, result))
        /\ Advance(notify_layers(at, result))
    /\ UNCHANGED <<layers, context_vars, window_size, event, invalidate_calls>>
    /\ UNCHANGED run_vars
    /\ UNCHANGED future_vars
    /\ UNCHANGED scene_vars

\* LayerManager::notify_all is called with an event
NotifyAllBegin(kind) ==
    /\ Idle
    /\ log' = <<>>
    /\ event' = PlainEvent(kind)
    /\ LET step == FirstRev(Len(layers))
       IN  /\ stage' = step.stage
           /\ at' = step.at
           /\ last_op' = FrameOp("notify_all", step.ret)
    /\ UNCHANGED <<layers, context_vars, window_size, invalidate_calls>>
    /\ UNCHANGED run_vars
    /\ UNCHANGED future_vars
    /\ UNCHANGED scene_vars

\* one iteration of the loop of LayerManager::notify_all
NotifyAllStep ==
    /\ stage = "notify"
    /\ last_op.op = "notify_all"
    /\ \E result \in on_event(layers[at], event) :
        /\ log' = Append(log, Call("on_event", at, event, result))
        /\ Advance(notify_all(at, result))
    /\ UNCHANGED <<layers, context_vars, window_size, event, invalidate_calls>>
    /\ UNCHANGED run_vars
    /\ UNCHANGED future_vars
    /\ UNCHANGED scene_vars

\* VulkanContext::invalidate_surface
InvalidateSurface ==
    /\ Idle
    /\ invalidate_calls < MaxInvalidate
    /\ need_swapchain_recreation' = invalidate_surface(need_swapchain_recreation)
    /\ invalidate_calls' = invalidate_calls + 1
    /\ log' = <<>>
    /\ last_op' = FrameOp("invalidate_surface", "Ok")
    /\ UNCHANGED <<layers, swapchain, swapchain_images, viewport, window_size,
                   stage, at, event>>
    /\ UNCHANGED run_vars
    /\ UNCHANGED future_vars
    /\ UNCHANGED scene_vars

\* the window system changes the window's inner size
WindowResize(size) ==
    /\ Idle
    /\ size /= window_size
    /\ window_size' = size
    /\ UNCHANGED <<layers, context_vars, log, last_op, stage, at, event, invalidate_calls>>
    /\ UNCHANGED run_vars
    /\ UNCHANGED future_vars
    /\ UNCHANGED scene_vars

\* VulkanContext::do_frame begins: if self.need_swapchain_recreation { .. }
DoFrameBegin ==
    /\ Idle
    /\ log' = <<>>
    /\ event' = NoEvent
    /\ last_op' = [op |-> "do_frame", ret |-> "run", invalidated |-> invalidate_calls]
    /\ invalidate_calls' = 0
    /\ stage' = IF need_swapchain_recreation THEN "recreate" ELSE "acquire"
    /\ at' = 0
    /\ in_future' = <<>>
    /\ draw_calls' = <<>>
    /\ submitted' = <<>>
    /\ UNCHANGED <<layers, context_vars, window_size>>
    /\ UNCHANGED run_vars
    /\ UNCHANGED scene_vars

\* let dimensions = self.recreate_swapchain()?; and the event is built
Recreate ==
    /\ stage = "recreate"
    /\ \E r \in recreate_swapchain(swapchain, swapchain_images, viewport, window_size) :
        /\ swapchain' = r.swapchain
        /\ swapchain_images' = r.swapchain_images
        /\ viewport' = r.viewport
        /\ log' = Append(log, Call("recreate_swapchain", 0, NoEvent,
                                   IF r.ok THEN "ok" ELSE "err"))
        /\ event' = IF r.ok
                    THEN MakeEvent("SwapchainInvalidated", r.swapchain_images,
                                   r.viewport, r.dimensions)
                    ELSE NoEvent
        /\ Advance(IF ~r.ok THEN Leave("Err")
                   ELSE IF Len(layers) = 0 THEN Goto("acquire", 0)
                   ELSE Goto("broadcast", 1))
    /\ UNCHANGED <<layers, need_swapchain_recreation, window_size, invalidate_calls>>
    /\ UNCHANGED run_vars
    /\ UNCHANGED future_vars
    /\ UNCHANGED scene_vars

\* one iteration of the loop that delivers SwapchainInvalidated
BroadcastStep ==
    /\ stage = "broadcast"
    /\ \E result \in on_event(layers[at], event) :
        /\ log' = Append(log, Call("on_event", at, event, result))
        /\ Advance(broadcast(at, Len(layers), result))
    /\ UNCHANGED <<layers, context_vars, window_size, event, invalidate_calls>>
    /\ UNCHANGED run_vars
    /\ UNCHANGED future_vars
    /\ UNCHANGED scene_vars

\* acquire_next_image(..)?; if suboptimal { need_swapchain_recreation = true };
\* the Frame's destination is swapchain_images[image_index]
Acquire ==
    /\ stage = "acquire"
    /\ \E result \in {"err", "ok", "suboptimal"}, image_index \in 0..(swapchain.image_count - 1) :
        /\ log' = Append(log, Call("acquire_next_image", 0, NoEvent, result))
        /\ need_swapchain_recreation' =
              mark_suboptimal(need_swapchain_recreation, result)
        /\ in_future' = IF result = "err" THEN <<>> ELSE AcquireFuture
        /\ Advance(acquire_step(result, image_index, Len(swapchain_images), Len(layers)))
    /\ UNCHANGED <<layers, swapchain, swapchain_images, viewport, window_size,
                   event, invalidate_calls, draw_calls, submitted>>
    /\ UNCHANGED run_vars
    /\ UNCHANGED scene_vars

\* one iteration of the draw chain
DrawStep ==
    /\ stage = "draw"
    /\ \E result \in on_draw(layers[at]) :
        LET returned == IF result = "err" THEN <<>>
                        ELSE draw_future(layers[at], at, in_future)
        IN  /\ log' = Append(log, Call("on_draw", at, NoEvent, result))
            /\ draw_calls' = Append(draw_calls, [layer |-> at, in_future |-> in_future,
                                       out |-> returned])
            /\ in_future' = returned
            /\ Advance(draw_chain(at, Len(layers), result))
    /\ UNCHANGED <<layers, context_vars, window_size, event, invalidate_calls, submitted>>
    /\ UNCHANGED run_vars
    /\ UNCHANGED scene_vars

\* join, then_swapchain_present, then_signal_fence_and_flush()?; wait(None).unwrap()
Present ==
    /\ stage = "present"
    /\ \E result \in {"err", "wait_err", "ok"} :
        /\ log' = Append(log, Call("present", 0, NoEvent, result))
        /\ submitted' = IF result = "err" THEN <<>>
                         ELSE then_swapchain_present(in_future)
        /\ in_future' = <<>>
        /\ Advance(Leave(IF result = "err" THEN "Err"
                         ELSE IF result = "wait_err" THEN "panic"
                         ELSE "Ok"))
    /\ UNCHANGED <<layers, context_vars, window_size, event, invalidate_calls, draw_calls>>
    /\ UNCHANGED run_vars
    /\ UNCHANGED scene_vars

(***************************************************************************)
(* Application::new and the callback of Application::run: the ticks, then  *)
(* the match on the winit event.                                           *)
(***************************************************************************)
\* the three layers pushed the other way round
application_layers_gui_first == <<"Gui", "Logic", "World">>

\* layers.push(world_layer); layers.push(logic_layer); layers.push(gui);
application_layers == <<"World", "Logic", "Gui">>

\* winit::event::Event::DeviceEvent: MouseMotion and another one
DeviceEvents == {"MouseMotion", "Button"}

\* winit::event::Event::UserEvent(GameEvent)
UserEvents == {"TestEvent", "SetMouseGrabOn", "SetMouseGrabOff"}

\* winit::event::Event::WindowEvent: the ones the callback treats apart, one
\* that is wrapped, and one Event::try_from refuses
WindowEvents == {"Resized", "CloseRequested", "CursorMoved", "KeyboardInput", "Moved"}

\* the events the callback is invoked with; "Suspended" falls to `_ => ()`
WinitEvents ==
    DeviceEvents \cup UserEvents \cup WindowEvents \cup {"RedrawEventsCleared", "Suspended"}

\* impl TryFrom<&WindowEvent> for Event: Ok(event) as <<kind>>, Err(()) as <<>>
try_from(window_event) ==
    CASE window_event = "Resized" -> <<"WindowResized">>
      [] window_event = "CloseRequested" -> <<"WindowCloseRequested">>
      [] window_event \in {"CursorMoved", "KeyboardInput"} -> <<"WindowEventWrapped">>
      [] OTHER -> <<>>

\* the WindowEvent arm without the return after CloseRequested
window_event_no_return(winit_window_event, grabbed) ==
    IF winit_window_event = "CursorMoved" /\ grabbed THEN <<>>
    ELSE try_from(winit_window_event)

\* the WindowEvent arm: the event notify_layers is called with as <<kind>>,
\* <<>> when the callback returns early or Event::try_from refuses
window_event(winit_window_event, grabbed) ==
    IF winit_window_event = "CloseRequested" THEN <<>>
    ELSE IF winit_window_event = "CursorMoved" /\ grabbed THEN <<>>
    ELSE try_from(winit_window_event)

\* Application::new: the context is made and the three layers are pushed
ApplicationNew ==
    /\ layers = application_layers
    /\ ContextInit

\* the event loop calls back while the process lives and the flow is not
\* Exit; do_frame(..).unwrap() ends the process on an error
RunAlive ==
    /\ Idle
    /\ flow /= "Exit"
    /\ ~(last_op.op = "do_frame" /\ last_op.ret = "Err")

\* Self::notify_layers(&mut self.layers, &event, flow) is called in the callback
StartNotify(kind) ==
    /\ event' = PlainEvent(kind)
    /\ LET step == FirstRev(Len(layers))
       IN  /\ stage' = step.stage
           /\ at' = step.at
           /\ last_op' = FrameOp("notify_layers", step.ret)

\* the callback returns without a call on the stack
NoDispatch ==
    /\ event' = NoEvent
    /\ stage' = "idle"
    /\ at' = 0
    /\ last_op' = FrameOp("callback", "Ok")

\* the event loop invokes the callback with an event
CallbackBegin(winit_event) ==
    /\ RunAlive
    /\ winit_event = "Resized" => invalidate_calls < MaxInvalidate
    /\ winit_event /= "RedrawEventsCleared" => ticked.callbacks < MaxCallbacks
    /\ callback' = [event |-> winit_event]
    /\ ticked' = [ticked EXCEPT !.callbacks = @ + 1]
    /\ log' = <<>>
    /\ event' = NoEvent
    /\ last_op' = FrameOp("callback", "run")
    /\ stage' = IF Len(layers) = 0 THEN "match" ELSE "tick"
    /\ at' = IF Len(layers) = 0 THEN 0 ELSE 1
    /\ UNCHANGED <<layers, context_vars, window_size, invalidate_calls, flow, mouse_grabbed>>
    /\ UNCHANGED future_vars
    /\ UNCHANGED scene_vars

\* one iteration of the tick loop of the callback
TickStep ==
    /\ stage = "tick"
    /\ \E result \in on_tick(layers[at]) :
        /\ log' = Append(log, Call("on_tick", at, NoEvent, result))
        /\ Advance(tick(at, Len(layers), result))
    /\ ticked' = [ticked EXCEPT !.ticks = @ + 1]
    /\ UNCHANGED <<layers, context_vars, window_size, event, invalidate_calls>>
    /\ UNCHANGED <<callback, flow, mouse_grabbed>>
    /\ UNCHANGED future_vars
    /\ UNCHANGED scene_vars

\* winit::event::Event::DeviceEvent { event, .. } =>
DeviceEvent ==
    /\ stage = "match"
    /\ callback.event \in DeviceEvents
    /\ IF mouse_grabbed /\ callback.event = "MouseMotion"
       THEN StartNotify("MouseMotion")
       ELSE NoDispatch
    /\ UNCHANGED <<layers, context_vars, window_size, log, invalidate_calls>>
    /\ UNCHANGED run_vars
    /\ UNCHANGED future_vars
    /\ UNCHANGED scene_vars

\* winit::event::Event::UserEvent(event) =>; set_cursor_grab(..).unwrap()
UserEvent ==
    /\ stage = "match"
    /\ callback.event \in UserEvents
    /\ \E grab_result \in {"ok", "err"} :
        IF callback.event /= "TestEvent" /\ grab_result = "err"
        THEN /\ event' = NoEvent
             /\ stage' = "idle"
             /\ at' = 0
             /\ last_op' = FrameOp("set_cursor_grab", "panic")
             /\ mouse_grabbed' = mouse_grabbed
        ELSE /\ mouse_grabbed' = IF callback.event = "TestEvent" THEN mouse_grabbed
                                 ELSE callback.event = "SetMouseGrabOn"
             /\ StartNotify("GameEvent")
    /\ UNCHANGED <<layers, context_vars, window_size, log, invalidate_calls, callback, flow>>
    /\ UNCHANGED ticked
    /\ UNCHANGED future_vars
    /\ UNCHANGED scene_vars

\* winit::event::Event::WindowEvent { event, .. } =>
WindowEvent ==
    /\ stage = "match"
    /\ callback.event \in WindowEvents
    /\ need_swapchain_recreation' =
          IF callback.event = "Resized"
          THEN invalidate_surface(need_swapchain_recreation)
          ELSE need_swapchain_recreation
    /\ invalidate_calls' =
          IF callback.event = "Resized" THEN invalidate_calls + 1 ELSE invalidate_calls
    /\ flow' = IF callback.event = "CloseRequested" THEN "Exit" ELSE flow
    /\ LET dispatched == window_event(callback.event, mouse_grabbed)
       IN  IF dispatched /= <<>> THEN StartNotify(dispatched[1]) ELSE NoDispatch
    /\ UNCHANGED <<layers, swapchain, swapchain_images, viewport, window_size, log,
                   callback, mouse_grabbed, ticked>>
    /\ UNCHANGED future_vars
    /\ UNCHANGED scene_vars

\* winit::event::Event::RedrawEventsCleared => self.render_context.do_frame(..)
RedrawEventsCleared ==
    /\ stage = "match"
    /\ callback.event = "RedrawEventsCleared"
    /\ event' = NoEvent
    /\ last_op' = [op |-> "do_frame", ret |-> "run", invalidated |-> invalidate_calls]
    /\ invalidate_calls' = 0
    /\ stage' = IF need_swapchain_recreation THEN "recreate" ELSE "acquire"
    /\ at' = 0
    /\ in_future' = <<>>
    /\ draw_calls' = <<>>
    /\ submitted' = <<>>
    /\ ticked' = [ticks |-> 0, callbacks |-> 0,
                  frames |-> IF ticked.frames < 2 THEN ticked.frames + 1 ELSE 2,
                  at_frame |-> [ticks |-> ticked.ticks, callbacks |-> ticked.callbacks]]
    /\ UNCHANGED <<layers, context_vars, window_size, log>>
    /\ UNCHANGED <<callback, flow, mouse_grabbed>>
    /\ UNCHANGED scene_vars

\* _ => ()
OtherEvent ==
    /\ stage = "match"
    /\ callback.event \notin DeviceEvents \cup UserEvents \cup WindowEvents
                             \cup {"RedrawEventsCleared"}
    /\ NoDispatch
    /\ UNCHANGED <<layers, context_vars, window_size, log, invalidate_calls>>
    /\ UNCHANGED run_vars
    /\ UNCHANGED future_vars
    /\ UNCHANGED scene_vars

(***************************************************************************)
(* Model, MeshObject, Entity.                                              *)
(***************************************************************************)
\* Model: data() is None for Storage::Host and Some(buffer) for Storage::Device
Model(storage, template) == [data |-> storage, material_template_id |-> template]

\* MeshObject: the model and the descriptor set of the object's transform
MeshObject(model, set) == [model |-> model, model_set |-> set]

MeshParameters(model) == [model |-> model]

\* Entity::new_with_mesh; id is the identity of the entity object
new_with_mesh(id, mesh) == [id |-> id, mesh |-> <<mesh>>, mesh_parameters |-> <<>>]

\* Entity::new_dynamic
new_dynamic(id, params) == [id |-> id, mesh |-> <<>>, mesh_parameters |-> <<params>>]

\* what may happen inside Entity::instantiate: the load succeeds, load_obj
\* unwraps a failure, the buffer upload fails, MeshObject::new fails
InstantiateOutcomes == {"ok", "load_panic", "load_err", "mesh_err"}

\* Entity::instantiate that keeps the pending parameters in place
instantiate_keeps_params(entity, outcome) ==
    IF entity.mesh_parameters = <<>> THEN [entity |-> entity, ret |-> "panic"]
    ELSE LET params == entity.mesh_parameters[1]
         IN  IF outcome = "load_panic" THEN [entity |-> entity, ret |-> "panic"]
             ELSE IF params.model.data /= <<>> \/ outcome /= "ok"
             THEN [entity |-> entity, ret |-> "Err"]
             ELSE [entity |-> [entity EXCEPT
                        !.mesh = <<MeshObject(Model(<<entity.id>>,
                                      params.model.material_template_id), entity.id)>>],
                   ret |-> "Ok"]

\* Entity::instantiate: take() the parameters and unwrap them, load the model
\* (Model::load: AlreadyLoaded unless the storage is Host), build the
\* MeshObject, store it
instantiate(entity, outcome) ==
    IF entity.mesh_parameters = <<>> THEN [entity |-> entity, ret |-> "panic"]
    ELSE LET params == entity.mesh_parameters[1]
             taken == [entity EXCEPT !.mesh_parameters = <<>>]
         IN  IF outcome = "load_panic" THEN [entity |-> taken, ret |-> "panic"]
             ELSE IF params.model.data /= <<>> \/ outcome /= "ok"
             THEN [entity |-> taken, ret |-> "Err"]
             ELSE [entity |-> [taken EXCEPT
                        !.mesh = <<MeshObject(Model(<<entity.id>>,
                                      params.model.material_template_id), entity.id)>>],
                   ret |-> "Ok"]

(***************************************************************************)
(* Scene.                                                                  *)
(***************************************************************************)
\* Scene::default()
EmptyScene == [data |-> <<>>, loading_list |-> <<>>]

MaterialEntityGroup(template, entities) ==
    [material_template_id |-> template, entities |-> entities]

\* data.iter_mut().find(|p| p.material_template_id == id): the place of the
\* first such group, 0 when there is none
FindGroup(groups, template) ==
    LET found == {i \in 1..Len(groups) : groups[i].material_template_id = template}
    IN  IF found = {} THEN 0 ELSE CHOOSE i \in found : \A j \in found : i <= j

\* Scene::add that pushes a mesh-bearing entity onto the first group there is
add_to_first_group(scene, entity) ==
    IF entity.mesh /= <<>>
    THEN IF scene.data /= <<>>
         THEN [scene EXCEPT !.data[1].entities = Append(@, entity)]
         ELSE [scene EXCEPT !.data = Append(@,
                  MaterialEntityGroup(entity.mesh[1].model.material_template_id, <<entity>>))]
    ELSE [scene EXCEPT !.loading_list = Append(@, entity)]

\* Scene::add that never finds a group
add_always_new_group(scene, entity) ==
    IF entity.mesh /= <<>>
    THEN [scene EXCEPT !.data = Append(@,
             MaterialEntityGroup(entity.mesh[1].model.material_template_id, <<entity>>))]
    ELSE [scene EXCEPT !.loading_list = Append(@, entity)]

\* Scene::add
add(scene, entity) ==
    IF entity.mesh /= <<>>
    THEN LET material_template_id == entity.mesh[1].model.material_template_id
             group == FindGroup(scene.data, material_template_id)
         IN  IF group /= 0
             THEN [scene EXCEPT !.data[group].entities = Append(@, entity)]
             ELSE [scene EXCEPT !.data = Append(@,
                      MaterialEntityGroup(material_template_id, <<entity>>))]
    ELSE [scene EXCEPT !.loading_list = Append(@, entity)]

RECURSIVE instantiate_models(_, _)
\* Scene::instantiate_models: while let Some(entity) = loading_list.pop()
\* { entity.instantiate(..)?; self.add(entity); }  The result names the scene
\* left, the entities add was called with, and what was returned.
instantiate_models(scene, added) ==
    IF scene.loading_list = <<>> THEN {[scene |-> scene, added |-> added, ret |-> "Ok"]}
    ELSE LET n == Len(scene.loading_list)
             popped == [scene EXCEPT !.loading_list = SubSeq(@, 1, n - 1)]
         IN  UNION {
                 LET r == instantiate(scene.loading_list[n], outcome)
                 IN  IF r.ret = "Ok"
                     THEN instantiate_models(add(popped, r.entity), Append(added, r.entity))
                     ELSE {[scene |-> popped, added |-> added, ret |-> r.ret]}
                 : outcome \in InstantiateOutcomes}

(***************************************************************************)
(* ForwardSystem: recording the secondary command buffers.                 *)
(***************************************************************************)
\* MaterialRegistry::get(id): self.data[id.0]
registry_get(registry, id) == registry.data[id + 1]

RECURSIVE chunks_exact(_, _)
\* chunks that leaves out a last chunk shorter than chunk_size
chunks_exact(entities, chunk_size) ==
    IF Len(entities) < chunk_size THEN <<>>
    ELSE <<SubSeq(entities, 1, chunk_size)>>
         \o chunks_exact(SubSeq(entities, chunk_size + 1, Len(entities)), chunk_size)

RECURSIVE chunks(_, _)
\* slice::chunks(chunk_size), for chunk_size > 0 (it panics on 0)
chunks(entities, chunk_size) ==
    IF entities = <<>> THEN <<>>
    ELSE IF Len(entities) <= chunk_size THEN <<entities>>
    ELSE <<SubSeq(entities, 1, chunk_size)>>
         \o chunks(SubSeq(entities, chunk_size + 1, Len(entities)), chunk_size)

RECURSIVE record_draws(_, _)
\* for object in entities { if let Some(mesh) = object.mesh() {
\*     model.data().unwrap(); bind ..; draw } }
record_draws(entities, i) ==
    IF i > Len(entities) THEN [ok |-> TRUE, draws |-> <<>>]
    ELSE LET object == entities[i]
             rest == record_draws(entities, i + 1)
         IN  IF object.mesh = <<>> THEN rest
             ELSE IF object.mesh[1].model.data = <<>> THEN [ok |-> FALSE, draws |-> <<>>]
             ELSE [ok |-> rest.ok,
                   draws |-> <<[vertex_buffer |-> object.mesh[1].model.data[1],
                                model_set |-> object.mesh[1].model_set]>> \o rest.draws]

\* a recording of a part that walks the entities from the last to the first
record_command_buffer_part_reversed(material_template, entities) ==
    LET recorded == record_draws(
            [k \in 1..Len(entities) |-> entities[Len(entities) + 1 - k]], 1)
    IN  [ok |-> recorded.ok,
         buffer |-> [pipeline |-> material_template.pipeline, draws |-> recorded.draws]]

\* ForwardSystem::record_command_buffer_part: bind the template's pipeline
\* and the scene set, then the draws of the entities
record_command_buffer_part(material_template, entities) ==
    LET recorded == record_draws(entities, 1)
    IN  [ok |-> recorded.ok,
         buffer |-> [pipeline |-> material_template.pipeline, draws |-> recorded.draws]]

RECURSIVE Ascending(_)
\* the numbers of a set in ascending order
Ascending(S) ==
    IF S = {} THEN <<>>
    ELSE LET least == CHOOSE x \in S : \A y \in S : x <= y
         IN  <<least>> \o Ascending(S \ {least})

\* chunks.par_bridge().map(..).collect(): each split of the bridge takes
\* chunks off the shared iterator and keeps them in the order taken; the
\* collected Vec is the first split's items, then the second's (taken)
par_bridge_collect(parts, taken) ==
    LET kept == Ascending((1..Len(parts)) \ taken)
        late == Ascending(taken \cap (1..Len(parts)))
        order == kept \o late
    IN  [k \in 1..Len(order) |-> parts[order[k]]]

\* the body of the loop over the groups: the buffers of one group, or a panic
\* (chunks(0), an unwrap in a part)
record_group(registry, group, taken) ==
    LET num_objects == Len(group.entities)
        chunk_size == num_objects \div ChunkDivisor
    IN  IF chunk_size = 0 \/ group.material_template_id + 1 > Len(registry.data)
        THEN [ok |-> FALSE, data |-> <<>>]
        ELSE LET material_template == registry_get(registry, group.material_template_id)
                 cs == chunks(group.entities, chunk_size)
                 parts == [k \in 1..Len(cs) |->
                              record_command_buffer_part(material_template, cs[k])]
             IN  [ok |-> \A k \in 1..Len(parts) : parts[k].ok,
                  data |-> par_bridge_collect([k \in 1..Len(parts) |-> parts[k].buffer], taken)]

RECURSIVE record_groups_interleaved(_, _, _, _)
\* a recording that lets the buffers of a group land before those of the
\* group before it
record_groups_interleaved(registry, groups, i, stolen) ==
    IF i > Len(groups) THEN [ret |-> "ok", cbs |-> <<>>]
    ELSE LET here == record_group(registry, groups[i], {c[2] : c \in {x \in stolen : x[1] = i}})
             rest == record_groups_interleaved(registry, groups, i + 1, stolen)
         IN  IF ~here.ok \/ rest.ret /= "ok" THEN [ret |-> "panic", cbs |-> <<>>]
             ELSE IF here.data /= <<>> /\ rest.cbs /= <<>>
             THEN [ret |-> "ok", cbs |-> <<rest.cbs[1]>> \o here.data \o Tail(rest.cbs)]
             ELSE [ret |-> "ok", cbs |-> here.data \o rest.cbs]

RECURSIVE record_groups(_, _, _, _)
\* for group in scene.data.iter() { ..; cbs.extend(data); } from group i on;
\* stolen: the (group, chunk) pairs the second split takes
record_groups(registry, groups, i, stolen) ==
    IF i > Len(groups) THEN [ret |-> "ok", cbs |-> <<>>]
    ELSE LET here == record_group(registry, groups[i], {c[2] : c \in {x \in stolen : x[1] = i}})
             rest == record_groups(registry, groups, i + 1, stolen)
         IN  IF ~here.ok \/ rest.ret /= "ok" THEN [ret |-> "panic", cbs |-> <<>>]
             ELSE [ret |-> "ok", cbs |-> here.data \o rest.cbs]

\* ForwardSystem::record_secondary_buffers
record_secondary_buffers(registry, scene, stolen) ==
    record_groups(registry, scene.data, 1, stolen)

\* the number of chunks chunks() cuts a group into (0 when it panics)
NumChunks(group) ==
    LET n == Len(group.entities)
        chunk_size == n \div ChunkDivisor
    IN  IF chunk_size = 0 THEN 0 ELSE (n + chunk_size - 1) \div chunk_size

AllChunks(groups) ==
    UNION {{<<g, k>> : k \in 1..NumChunks(groups[g])} : g \in 1..Len(groups)}

\* the ways the second split may take a chunk during one recording: none, or
\* any one chunk of any one group
Schedules(groups) == {{}} \cup {{c} : c \in AllChunks(groups)}

(***************************************************************************)
(* The operations on the scene.                                            *)
(***************************************************************************)
Templates == 0..(NumTemplates - 1)

SceneAlive == scene_op.ret /= "panic"

\* the scene as a value
TheScene == [data |-> data, loading_list |-> loading_list]

\* the names templates are registered under, by MaterialTemplateId
TemplateNames == <<"simple", "textured", "flat", "wire">>

\* SimpleMaterial::create_pipeline: a pipeline built from the shader modules
\* for a viewport
create_pipeline(vs, fs, vp) == [template |-> vs, viewport |-> vp]

\* SimpleMaterial::new: the shader modules are loaded, the pipeline is built
SimpleMaterial(id, vp) ==
    [pipeline |-> create_pipeline(id, id, vp), vs |-> id, fs |-> id]

\* the registry with every template registered, built for one viewport
RegistryInit ==
    [viewport |-> 1,
     data |-> [t \in 1..NumTemplates |-> SimpleMaterial(t - 1, 1)],
     names |-> [n \in {TemplateNames[t] : t \in 1..NumTemplates} |->
                  (CHOOSE t \in 1..NumTemplates : TemplateNames[t] = n) - 1]]

\* the entities a caller may construct with identity id: with a mesh whose
\* model is on the device, or dynamic with the model still on the host, of
\* any template
NewEntities(id) ==
    {new_with_mesh(id, MeshObject(Model(<<id>>, t), id)) : t \in Templates}
    \cup {new_dynamic(id, MeshParameters(Model(<<>>, t))) : t \in Templates}

\* a scene just made, and nothing recorded
SceneDefault ==
    /\ data = EmptyScene.data
    /\ loading_list = EmptyScene.loading_list
    /\ cbs = <<>>
    /\ scene_op = Op("default", "Ok")
    /\ add_calls = <<>>
    /\ handed = {}

\* a scene just made and a registry that holds every template
SceneInit ==
    /\ SceneDefault
    /\ material_registry = RegistryInit

\* Scene::add called with a new entity
SceneAdd(entity) ==
    /\ SceneAlive
    /\ Cardinality(handed) < MaxEntities
    /\ LET scene == add(TheScene, entity)
       IN  /\ data' = scene.data
           /\ loading_list' = scene.loading_list
    /\ add_calls' = Append(add_calls, entity)
    /\ handed' = handed \cup {entity.id}
    /\ scene_op' = Op("add", "Ok")
    /\ UNCHANGED <<material_registry, cbs>>
    /\ UNCHANGED resource_vars
    /\ UNCHANGED world_vars
    /\ UNCHANGED frame_vars

\* Scene::instantiate_models
InstantiateModels ==
    /\ SceneAlive
    /\ \E r \in instantiate_models(TheScene, <<>>) :
        /\ data' = r.scene.data
        /\ loading_list' = r.scene.loading_list
        /\ add_calls' = add_calls \o r.added
        /\ scene_op' = Op("instantiate_models", r.ret)
    /\ UNCHANGED <<material_registry, cbs, handed>>
    /\ UNCHANGED resource_vars
    /\ UNCHANGED world_vars
    /\ UNCHANGED frame_vars

\* ForwardSystem::record_secondary_buffers on the scene; cbs is built from
\* nothing by every call, so one call is followed per scene
Record ==
    /\ SceneAlive
    /\ cbs = <<>>
    /\ \E stolen \in Schedules(data) :
        LET r == record_secondary_buffers(material_registry, TheScene, stolen)
        IN  /\ cbs' = r.cbs
            /\ scene_op' = Op("record_secondary_buffers", r.ret)
    /\ UNCHANGED <<data, loading_list, material_registry, add_calls, handed>>
    /\ UNCHANGED resource_vars
    /\ UNCHANGED world_vars
    /\ UNCHANGED frame_vars

RECURSIVE AddAll(_, _, _, _)
\* Scene::add called with the entities lo..hi of a sequence, in their order
AddAll(scene, entities, lo, hi) ==
    IF lo > hi THEN scene
    ELSE IF lo = hi THEN add(scene, entities[lo])
    ELSE LET mid == (lo + hi) \div 2
             first == AddAll(scene, entities, lo, mid)
         IN  AddAll(first, entities, mid + 1, hi)

\* the device buffer of a model that meshes of template t share through
\* their Arc<Model>; a buffer of one entity's own model is named by its id
SharedBuffer(t) == 0 - t

\* n0 entities of template 0 and then n1 of template 1, each with a mesh
\* whose model is on the device: every second one has a model of its own,
\* the others share the model of their template
Prepared(n0, n1) ==
    [i \in 1..(n0 + n1) |->
        LET t == IF i <= n0 THEN 0 ELSE 1
        IN  new_with_mesh(i, MeshObject(
                Model(IF i % 2 = 0 THEN <<i>> ELSE <<SharedBuffer(t)>>, t), i))]

\* sizes of the first prepared group: below, at and above the divisor, whole
\* chunks and a remainder
FirstSizes ==
    {1}
    \cup {ChunkDivisor * k + r : k \in 1..MaxChunkLen, r \in (0 - 1)..1}

SecondSizes == {0, 1, ChunkDivisor}

\* one more entity, or none: dynamic ones, and one whose mesh holds a model
\* still on the host
Extras(id) ==
    {<<>>}
    \cup {<<new_dynamic(id, MeshParameters(Model(<<>>, t)))>> : t \in Templates}
    \cup {<<new_with_mesh(id, MeshObject(Model(<<>>, 0), id))>>}

\* the scene Scene::add leaves when called with the entities of such a
\* sequence in their order: the template-0 group is made by the first call,
\* the template-1 group by the first entity of template 1, and every later
\* entity is pushed at the end of its group or of the loading list
SceneOf(entities) ==
    LET of(t) == SelectSeq(entities, LAMBDA e :
                     e.mesh /= <<>> /\ e.mesh[1].model.material_template_id = t)
        groups == [t \in 1..NumTemplates |-> MaterialEntityGroup(t - 1, of(t - 1))]
    IN  [data |-> SelectSeq(groups, LAMBDA g : g.entities /= <<>>),
         loading_list |-> SelectSeq(entities, LAMBDA e : e.mesh = <<>>)]

\* a scene filled by Scene::add calls, nothing recorded yet
RecordInit ==
    \E n0 \in FirstSizes, n1 \in SecondSizes :
      \E extra \in Extras(n0 + n1 + 1) :
        LET entities == Prepared(n0, n1) \o extra
            scene == SceneOf(entities)
        IN  /\ data = scene.data
            /\ loading_list = scene.loading_list
            /\ material_registry = RegistryInit
            /\ cbs = <<>>
            /\ scene_op = Op("add", "Ok")
            /\ add_calls = entities
            /\ handed = {entities[i].id : i \in 1..Len(entities)}

(***************************************************************************)
(* Camera: angles are counted in tenths of a degree, so that PI and the    *)
(* pitch limit of 89.9 degrees are whole numbers.                          *)
(***************************************************************************)
\* std::f32::consts::PI
PI == 1800

\* 89.9f32.to_radians()
PitchLimit == 899

\* the angle the deltas are multiples of: a sixth of PI
AngleStep == PI \div 6

\* #[derive(Default)]: pitch 0.0, yaw 0.0
CameraDefault == [pitch |-> 0, yaw |-> 0]

\* nalgebra::clamp
clamp(val, min, max) == IF val > min THEN (IF val < max THEN val ELSE max) ELSE min

\* f32::round of n / d for d > 0: to the nearest whole number, a half away
\* from zero
round(n, d) ==
    IF n >= 0 THEN (2 * n + d) \div (2 * d)
    ELSE 0 - ((2 * (0 - n) + d) \div (2 * d))

\* Camera::rotate_angles without the line that wraps the yaw
rotate_angles_unwrapped(cam, pitch, yaw) ==
    [pitch |-> clamp(cam.pitch + pitch, 0 - PitchLimit, PitchLimit),
     yaw |-> cam.yaw + yaw]

\* Camera::rotate_angles
rotate_angles(cam, pitch, yaw) ==
    LET turned == cam.yaw + yaw
    IN  [pitch |-> clamp(cam.pitch + pitch, 0 - PitchLimit, PitchLimit),
         yaw |-> turned - round(turned, 2 * PI) * (2 * PI)]

\* the deltas rotate_angles is called with
AngleDeltas == {k * AngleStep : k \in (0 - MaxTurn)..MaxTurn}

\* Camera::rotate_angles is called
RotateAngles(pitch, yaw) ==
    /\ camera' = rotate_angles(camera, pitch, yaw)
    /\ UNCHANGED <<locks, threads>>
    /\ UNCHANGED <<data, loading_list, material_registry, cbs, scene_op, add_calls, handed>>
    /\ UNCHANGED resource_vars
    /\ UNCHANGED frame_vars

\* Camera::reset_rotation
ResetRotation ==
    /\ camera' = [pitch |-> 0, yaw |-> 0]
    /\ UNCHANGED <<locks, threads>>
    /\ UNCHANGED <<data, loading_list, material_registry, cbs, scene_op, add_calls, handed>>
    /\ UNCHANGED resource_vars
    /\ UNCHANGED frame_vars

(***************************************************************************)
(* The locks of the shared resources and the callbacks that take them.     *)
(***************************************************************************)
\* Arc<Mutex<..>> of the material, model and texture registries and of the
\* scene
Locks == {"materials", "models", "textures", "scene"}

\* the callbacks that lock: WorldLayer::on_draw, LogicLayer::on_event with a
\* TestEvent, WorldLayer::on_event with a SwapchainInvalidated
Paths == {"draw", "test", "resize"}

\* the locks a callback takes, in the order of its lock() calls
lock_order(path) ==
    IF path = "draw" THEN <<"scene", "materials">>
    ELSE IF path = "test" THEN <<"materials", "models", "textures", "scene">>
    ELSE <<"materials">>

\* a callback that took no lock yet
Unlocked == [at |-> "idle", group |-> 0]

\* the camera of a new scene, no guard alive, no callback running
WorldInit ==
    /\ camera = CameraDefault
    /\ locks = [l \in Locks |-> "none"]
    /\ threads = [p \in Paths |-> Unlocked]

(***************************************************************************)
(* Model: the storage of a model and Model::load.                          *)
(***************************************************************************)
\* Model::host: the storage is Storage::Host(path)
host(template) == Model(<<>>, template)

\* Model::is_loaded
is_loaded(model) == model.data /= <<>>

\* Model::data(): Some(buffer) for Storage::Device, None for Storage::Host
model_data(model) == model.data

\* what may happen inside load_obj: the buffer is made, File::open / the
\* parser / the fence wait is unwrapped on a failure, the upload fails
LoadOutcomes == {"ok", "panic", "err"}

\* Model::load that loads whatever the storage is
load_reloads(model, outcome, buffer) ==
    IF outcome = "ok" THEN [model |-> [model EXCEPT !.data = <<buffer>>], ret |-> "Ok"]
    ELSE IF outcome = "panic" THEN [model |-> model, ret |-> "panic"]
    ELSE [model |-> model, ret |-> "Err"]

\* Model::load: if let Storage::Host(path) = &self.data
\* { self.data = Self::load_obj(..)?; Ok(()) } else { Err(Error::AlreadyLoaded) };
\* buffer names the ImmutableBuffer a successful load_obj makes
load(model, outcome, buffer) ==
    IF model.data = <<>>
    THEN IF outcome = "ok"
         THEN [model |-> [model EXCEPT !.data = <<buffer>>], ret |-> "Ok"]
         ELSE IF outcome = "panic" THEN [model |-> model, ret |-> "panic"]
         ELSE [model |-> model, ret |-> "Err"]
    ELSE [model |-> model, ret |-> "AlreadyLoaded"]

\* an operation on a resource, the resource it was called on and its result
ResourceOp(op, on, ret) == [op |-> op, on |-> on, ret |-> ret]

ResourceAlive == resource_op.ret /= "panic"

\* no model was made and no resource operation was called
ResourceInit ==
    /\ models = <<>>
    /\ resource_op = ResourceOp("none", 0, "Ok")
    /\ registry_lock = "free"
    /\ reader = [holds |-> FALSE, observed |-> <<>>]
    /\ writer = [at |-> 0]
    /\ WorldInit

\* the buffers the models hold on the device
DeviceBuffers == {models[i].data[1] : i \in {j \in 1..Len(models) : is_loaded(models[j])}}

\* a buffer no model holds: ImmutableBuffer::from_iter makes a new one
FreshBuffer == Cardinality(DeviceBuffers) + 1

\* Model::host
ModelHost(template) ==
    /\ ResourceAlive
    /\ Len(models) < MaxModels
    /\ models' = Append(models, host(template))
    /\ resource_op' = ResourceOp("host", Len(models) + 1, "Ok")
    /\ UNCHANGED <<data, loading_list, material_registry, cbs, scene_op, add_calls, handed>>
    /\ UNCHANGED lock_vars
    /\ UNCHANGED world_vars
    /\ UNCHANGED frame_vars

\* Model::new / Model::load_to_device returned Ok: the storage is a new
\* device buffer
ModelNew(template) ==
    /\ ResourceAlive
    /\ Len(models) < MaxModels
    /\ models' = Append(models, Model(<<FreshBuffer>>, template))
    /\ resource_op' = ResourceOp("new", Len(models) + 1, "Ok")
    /\ UNCHANGED <<data, loading_list, material_registry, cbs, scene_op, add_calls, handed>>
    /\ UNCHANGED lock_vars
    /\ UNCHANGED world_vars
    /\ UNCHANGED frame_vars

\* Model::load on the i-th model
ModelLoad(i) ==
    /\ ResourceAlive
    /\ i \in 1..Len(models)
    /\ \E outcome \in LoadOutcomes :
        LET r == load(models[i], outcome, FreshBuffer)
        IN  /\ models' = [models EXCEPT ![i] = r.model]
            /\ resource_op' = ResourceOp("load", i, r.ret)
    /\ UNCHANGED <<data, loading_list, material_registry, cbs, scene_op, add_calls, handed>>
    /\ UNCHANGED lock_vars
    /\ UNCHANGED world_vars
    /\ UNCHANGED frame_vars

(***************************************************************************)
(* MaterialRegistry: get_or_load, add, recreate_pipelines, and the Mutex   *)
(* its users lock.                                                         *)
(***************************************************************************)
\* MaterialRegistry::new: no template, no name
MaterialRegistryNew == [viewport |-> 1, data |-> <<>>, names |-> <<>>]

\* the names get_or_load and add are called with
RegistryNames == {TemplateNames[t] : t \in 1..NumTemplates}

\* MaterialRegistry::get_id: Some(id) as <<id>>, None as <<>>
get_id(registry, name) ==
    IF name \in DOMAIN registry.names THEN <<registry.names[name]>> ELSE <<>>

\* MaterialRegistry::add: the id is the length of data; the name is
\* inserted (an entry of that name is overwritten) and the template pushed
registry_add(registry, name, mat) ==
    [registry |->
        [registry EXCEPT
            !.names = [n \in DOMAIN registry.names \cup {name} |->
                          IF n = name THEN Len(registry.data) ELSE registry.names[n]],
            !.data = Append(registry.data, mat)],
     id |-> Len(registry.data)]

\* what SimpleMaterial::new may give
NewOutcomes == {"ok", "err"}

\* the result of a call on the registry: the registry after it, what it
\* returned and the id it returned (-1 for none)
RegistryResult(registry, ret, id) == [registry |-> registry, ret |-> ret, id |-> id]

\* a get_or_load that builds the template for the viewport the registry
\* was made with
get_or_load_startup_viewport(registry, name, outcome) ==
    IF get_id(registry, name) /= <<>>
    THEN RegistryResult(registry, "Ok", get_id(registry, name)[1])
    ELSE IF name = "simple"
    THEN IF outcome = "ok"
         THEN LET added == registry_add(registry, name,
                               SimpleMaterial(Len(registry.data),
                                              MaterialRegistryNew.viewport))
              IN  RegistryResult(added.registry, "Ok", added.id)
         ELSE RegistryResult(registry, "panic", 0 - 1)
    ELSE RegistryResult(registry, "panic", 0 - 1)

\* MaterialRegistry::get_or_load: a registered name gives its id; "simple"
\* is made by SimpleMaterial::new(..).unwrap() and added; any other name
\* panics
get_or_load(registry, name, outcome) ==
    IF get_id(registry, name) /= <<>>
    THEN RegistryResult(registry, "Ok", get_id(registry, name)[1])
    ELSE IF name = "simple"
    THEN IF outcome = "ok"
         THEN LET added == registry_add(registry, name,
                                        SimpleMaterial(Len(registry.data), registry.viewport))
              IN  RegistryResult(added.registry, "Ok", added.id)
         ELSE RegistryResult(registry, "panic", 0 - 1)
    ELSE RegistryResult(registry, "panic", 0 - 1)

\* what create_pipeline may give in a recreation
RecreateOutcomes == {"ok", "err"}

\* a recreate_pipeline that returns Ok(()) and stores nothing
recreate_pipeline_keeps_old(mat, vp, outcome) ==
    [mat |-> mat, ret |-> IF outcome = "ok" THEN "Ok" ELSE "Err"]

\* SimpleMaterial::recreate_pipeline:
\* self.pipeline = Self::create_pipeline(.., &self.vs, &self.fs)?; Ok(())
recreate_pipeline(mat, vp, outcome) ==
    IF outcome = "ok"
    THEN [mat |-> [mat EXCEPT !.pipeline = create_pipeline(mat.vs, mat.fs, vp)],
          ret |-> "Ok"]
    ELSE [mat |-> mat, ret |-> "Err"]

\* MaterialTemplate::pipeline
pipeline(mat) == mat.pipeline

RECURSIVE recreate_from(_, _, _, _)
\* for mat in self.data.iter_mut() { mat.recreate_pipeline(viewport)?; }
\* from template i on; create_pipeline fails at the template failing (0: at
\* none)
recreate_from(registry, vp, failing, i) ==
    IF i > Len(registry.data) THEN [registry |-> registry, ret |-> "Ok"]
    ELSE LET r == recreate_pipeline(registry.data[i], vp,
                                    IF i = failing THEN "err" ELSE "ok")
         IN  IF r.ret /= "Ok" THEN [registry |-> registry, ret |-> "Err"]
             ELSE recreate_from([registry EXCEPT !.data[i] = r.mat], vp, failing, i + 1)

\* MaterialRegistry::recreate_pipelines: self.viewport = viewport.clone(),
\* then the loop, then Ok(())
recreate_pipelines(registry, vp, failing) ==
    recreate_from([registry EXCEPT !.viewport = vp], vp, failing, 1)

\* a Mutex that lets anyone in
can_lock_always(lock_holders) == TRUE

\* Mutex::lock returns once no guard is alive
can_lock(lock_holders) == lock_holders = {}

\* the guards alive: a recording's, a recreation's
Holders ==
    (IF reader.holds THEN {"reader"} ELSE {})
    \cup (IF writer.at > 0 THEN {"writer"} ELSE {})

\* a call on the registry, the name it was called with, what it returned
\* and the id it returned
RegistryOp(op, name, ret, id) == [op |-> op, on |-> name, ret |-> ret, id |-> id]

not_registry_vars == <<data, loading_list, cbs, scene_op, add_calls, handed, models>>

\* materials.get_or_load(name) under the guard
GetOrLoad(name) ==
    /\ ResourceAlive
    /\ can_lock(Holders)
    /\ \E outcome \in NewOutcomes :
        LET r == get_or_load(material_registry, name, outcome)
        IN  /\ material_registry' = r.registry
            /\ resource_op' = RegistryOp("get_or_load", name, r.ret, r.id)
    /\ UNCHANGED lock_vars
    /\ UNCHANGED not_registry_vars
    /\ UNCHANGED world_vars
    /\ UNCHANGED frame_vars

\* material_registry.lock().unwrap().add(name, mat) with a template made
\* by the caller
RegistryAdd(name) ==
    /\ ResourceAlive
    /\ can_lock(Holders)
    /\ Len(material_registry.data) < NumTemplates
    /\ LET r == registry_add(material_registry, name,
                             SimpleMaterial(Len(material_registry.data),
                                            material_registry.viewport))
       IN  /\ material_registry' = r.registry
           /\ resource_op' = RegistryOp("add", name, "Ok", r.id)
    /\ UNCHANGED lock_vars
    /\ UNCHANGED not_registry_vars
    /\ UNCHANGED world_vars
    /\ UNCHANGED frame_vars

\* material_registry.lock().unwrap().recreate_pipelines(viewport) begins:
\* the guard is taken and self.viewport = viewport.clone()
WriterLock(vp) ==
    /\ ResourceAlive
    /\ writer.at = 0
    /\ can_lock(Holders)
    /\ registry_lock' = "writer"
    /\ writer' = [at |-> 1]
    /\ material_registry' = [material_registry EXCEPT !.viewport = vp]
    /\ resource_op' = RegistryOp("recreate_pipelines", "", "run", 0 - 1)
    /\ UNCHANGED reader
    /\ UNCHANGED not_registry_vars
    /\ UNCHANGED world_vars
    /\ UNCHANGED frame_vars

\* one iteration of for mat in self.data.iter_mut() { mat.recreate_pipeline(..)?; }
\* or, past the last template, Ok(()); the guard is dropped on return
WriterStep ==
    /\ writer.at > 0
    /\ IF writer.at > Len(material_registry.data)
       THEN /\ writer' = [at |-> 0]
            /\ resource_op' = [resource_op EXCEPT !.ret = "Ok"]
            /\ UNCHANGED material_registry
       ELSE \E outcome \in RecreateOutcomes :
            LET r == recreate_pipeline(material_registry.data[writer.at],
                                       material_registry.viewport, outcome)
            IN  /\ material_registry' =
                      [material_registry EXCEPT !.data[writer.at] = r.mat]
                /\ writer' = [at |-> IF r.ret = "Ok" THEN writer.at + 1 ELSE 0]
                /\ resource_op' = [resource_op EXCEPT
                                      !.ret = IF r.ret = "Ok" THEN "run" ELSE "Err"]
    /\ registry_lock' = IF writer'.at = 0 THEN "free" ELSE registry_lock
    /\ UNCHANGED reader
    /\ UNCHANGED not_registry_vars
    /\ UNCHANGED world_vars
    /\ UNCHANGED frame_vars

\* record_secondary_buffers begins: let materials = self.material_registry.lock().unwrap();
ReaderLock ==
    /\ ResourceAlive
    /\ ~reader.holds
    /\ can_lock(Holders)
    /\ registry_lock' = "reader"
    /\ reader' = [holds |-> TRUE, observed |-> <<>>]
    /\ UNCHANGED <<material_registry, resource_op, writer>>
    /\ UNCHANGED not_registry_vars
    /\ UNCHANGED world_vars
    /\ UNCHANGED frame_vars

\* a group of the scene is recorded: materials.get(id) and, in
\* record_command_buffer_part, material_template.pipeline()
ReaderRead(id) ==
    /\ reader.holds
    /\ Len(reader.observed) < MaxReads
    /\ id < Len(material_registry.data)
    /\ reader' = [reader EXCEPT
                     !.observed = Append(@, [id |-> id,
                                             pipeline |-> pipeline(registry_get(material_registry, id))])]
    /\ UNCHANGED <<material_registry, resource_op, registry_lock, writer>>
    /\ UNCHANGED not_registry_vars
    /\ UNCHANGED world_vars
    /\ UNCHANGED frame_vars

\* record_secondary_buffers returns and the guard is dropped
ReaderUnlock ==
    /\ reader.holds
    /\ reader' = [holds |-> FALSE, observed |-> <<>>]
    /\ registry_lock' = "free"
    /\ UNCHANGED <<material_registry, resource_op, writer>>
    /\ UNCHANGED not_registry_vars
    /\ UNCHANGED world_vars
    /\ UNCHANGED frame_vars

(***************************************************************************)
(* The layer callbacks, each on a thread of its own, and their locks.      *)
(***************************************************************************)
\* the lock a callback takes next, <<>> once it holds all of its locks
NextLock(path) ==
    LET order == lock_order(path)
        held == IF threads[path].at = "idle" THEN 0
                ELSE CHOOSE k \in 1..Len(order) : order[k] = threads[path].at
    IN  IF held < Len(order) THEN <<order[held + 1]>> ELSE <<>>

\* a Mutex that hands out a second guard
acquire_always(holder) == TRUE

\* Mutex::lock returns once the guard is free (lock().unwrap() of a
\* poisoned Mutex panics, and the callback gets no further)
acquire(holder) == holder = "none"

\* the guards of a callback are dropped: on return, or poisoned by a panic
release(held, path, panicked) ==
    [l \in Locks |-> IF held[l] = path
                     THEN (IF panicked THEN "poisoned" ELSE "none")
                     ELSE held[l]]

\* what the registries and Entity::new_with_mesh may give in a TestEvent
TestOutcomes == {"ok", "err"}

\* the scene and the registry as left by twelve adds of template "simple"
LayersInit ==
    LET entities == Prepared(ChunkDivisor, 0)
        scene == SceneOf(entities)
    IN  /\ data = scene.data
        /\ loading_list = scene.loading_list
        /\ material_registry =
               get_or_load(MaterialRegistryNew, "simple", "ok").registry
        /\ cbs = <<>>
        /\ scene_op = Op("add", "Ok")
        /\ add_calls = entities
        /\ handed = {entities[i].id : i \in 1..Len(entities)}

\* the next lock() call of a callback returns
Lock(path) ==
    /\ NextLock(path) /= <<>>
    /\ acquire(locks[NextLock(path)[1]])
    /\ locks' = [locks EXCEPT ![NextLock(path)[1]] = path]
    /\ threads' = [threads EXCEPT ![path] =
                      [at |-> NextLock(path)[1],
                       group |-> IF path = "draw" /\ NextLock(path)[1] = "materials"
                                 THEN 1 ELSE 0]]
    /\ cbs' = IF path = "draw" /\ NextLock(path)[1] = "materials" THEN <<>> ELSE cbs
    /\ UNCHANGED <<data, loading_list, material_registry, scene_op, add_calls, handed>>
    /\ UNCHANGED camera
    /\ UNCHANGED resource_vars
    /\ UNCHANGED frame_vars

\* LogicLayer::on_event with a TestEvent, all four guards held:
\* materials.get_or_load("simple").unwrap(), the texture and the mesh with ?,
\* Entity::new_with_mesh(..)?, scene.add(entity); the guards are dropped
TestEvent ==
    /\ threads["test"].at = "scene"
    /\ Cardinality(handed) < ChunkDivisor + MaxEntities
    /\ \E new \in NewOutcomes, outcome \in TestOutcomes :
        LET r == get_or_load(material_registry, "simple", new)
            id == Cardinality(handed) + 1
            entity == new_with_mesh(id, MeshObject(Model(<<id>>, r.id), id))
            scene == add(TheScene, entity)
            added == r.ret = "Ok" /\ outcome = "ok"
        IN  /\ material_registry' = r.registry
            /\ data' = IF added THEN scene.data ELSE data
            /\ loading_list' = IF added THEN scene.loading_list ELSE loading_list
            /\ add_calls' = IF added THEN Append(add_calls, entity) ELSE add_calls
            /\ handed' = IF added THEN handed \cup {id} ELSE handed
            /\ scene_op' = Op("add", IF r.ret /= "Ok" THEN "panic"
                                     ELSE IF added THEN "Ok" ELSE "Err")
            /\ locks' = release(locks, "test", r.ret /= "Ok")
    /\ threads' = [threads EXCEPT !["test"] = Unlocked]
    /\ UNCHANGED cbs
    /\ UNCHANGED camera
    /\ UNCHANGED resource_vars
    /\ UNCHANGED frame_vars

\* WorldLayer::on_event with a SwapchainInvalidated:
\* self.material_registry.lock().unwrap().recreate_pipelines(viewport)?
SwapchainInvalidated(vp) ==
    /\ threads["resize"].at = "materials"
    /\ \E failing \in 0..Len(material_registry.data) :
        LET r == recreate_pipelines(material_registry, vp, failing)
        IN  /\ material_registry' = r.registry
            /\ scene_op' = Op("recreate_pipelines", r.ret)
    /\ locks' = release(locks, "resize", FALSE)
    /\ threads' = [threads EXCEPT !["resize"] = Unlocked]
    /\ UNCHANGED <<data, loading_list, cbs, add_calls, handed>>
    /\ UNCHANGED camera
    /\ UNCHANGED resource_vars
    /\ UNCHANGED frame_vars

\* the workers record the chunks of one group of the scene and the buffers
\* are collected: one iteration of the loop of record_secondary_buffers
RecordGroup ==
    /\ threads["draw"].at = "materials"
    /\ threads["draw"].group <= Len(data)
    /\ LET r == record_group(material_registry, data[threads["draw"].group], {})
       IN  /\ cbs' = cbs \o r.data
           /\ scene_op' = Op("record_secondary_buffers", IF r.ok THEN "run" ELSE "panic")
           /\ locks' = IF r.ok THEN locks ELSE release(locks, "draw", TRUE)
           /\ threads' = [threads EXCEPT !["draw"] =
                             IF r.ok THEN [at |-> "materials", group |-> @.group + 1]
                             ELSE Unlocked]
    /\ UNCHANGED <<data, loading_list, material_registry, add_calls, handed>>
    /\ UNCHANGED camera
    /\ UNCHANGED resource_vars
    /\ UNCHANGED frame_vars

\* record_secondary_buffers returns cbs and its guard of the registry is
\* dropped, then do_frame and on_draw return and the guard of the scene is
\* dropped
DrawEnd ==
    /\ threads["draw"].at = "materials"
    /\ threads["draw"].group > Len(data)
    /\ locks' = release(locks, "draw", FALSE)
    /\ threads' = [threads EXCEPT !["draw"] = Unlocked]
    /\ scene_op' = Op("record_secondary_buffers", "Ok")
    /\ UNCHANGED <<data, loading_list, material_registry, cbs, add_calls, handed>>
    /\ UNCHANGED camera
    /\ UNCHANGED resource_vars
    /\ UNCHANGED frame_vars

(***************************************************************************)
(* The specifications.                                                     *)
(***************************************************************************)
Init == FrameInit /\ SceneInit /\ ResourceInit

Next ==
    \/ \E kind \in PushKinds : Push(kind)
    \/ \E kind \in DispatchedKinds : NotifyLayersBegin(kind)
    \/ NotifyLayersStep
    \/ \E kind \in DispatchedKinds : NotifyAllBegin(kind)
    \/ NotifyAllStep
    \/ InvalidateSurface
    \/ \E size \in 1..NumSizes : WindowResize(size)
    \/ DoFrameBegin
    \/ Recreate
    \/ BroadcastStep
    \/ Acquire
    \/ DrawStep
    \/ Present

Spec == Init /\ [][Next]_vars

SceneNext ==
    \/ \E entity \in NewEntities(Cardinality(handed) + 1) : SceneAdd(entity)
    \/ InstantiateModels

SpecScene == Init /\ [][SceneNext]_vars

RecordNext ==
    \/ InstantiateModels
    \/ Record

InitRecord == FrameInit /\ RecordInit /\ ResourceInit

SpecRecord == InitRecord /\ [][RecordNext]_vars

RunNext ==
    \/ \E winit_event \in WinitEvents : CallbackBegin(winit_event)
    \/ TickStep
    \/ DeviceEvent
    \/ UserEvent
    \/ WindowEvent
    \/ RedrawEventsCleared
    \/ OtherEvent
    \/ NotifyLayersStep
    \/ \E size \in 1..NumSizes : WindowResize(size)
    \/ Recreate
    \/ BroadcastStep
    \/ Acquire
    \/ DrawStep
    \/ Present

InitRun == ApplicationNew /\ SceneInit /\ ResourceInit

SpecRun == InitRun /\ [][RunNext]_vars

RegistryNext ==
    \/ \E name \in RegistryNames : GetOrLoad(name)
    \/ \E name \in RegistryNames : RegistryAdd(name)
    \/ \E vp \in 1..NumSizes : WriterLock(vp)
    \/ WriterStep
    \/ ReaderLock
    \/ \E id \in Templates : ReaderRead(id)
    \/ ReaderUnlock

\* the context is made, the scene is empty, the registry was just made
InitRegistry ==
    /\ FrameInit
    /\ SceneDefault
    /\ material_registry = MaterialRegistryNew
    /\ ResourceInit

SpecRegistry == InitRegistry /\ [][RegistryNext]_vars

CameraNext ==
    \/ \E pitch \in AngleDeltas, yaw \in AngleDeltas : RotateAngles(pitch, yaw)
    \/ ResetRotation

SpecCamera == Init /\ [][CameraNext]_vars

LayersNext ==
    \/ \E path \in Paths : Lock(path)
    \/ TestEvent
    \/ \E vp \in 1..NumSizes : SwapchainInvalidated(vp)
    \/ RecordGroup
    \/ DrawEnd

InitLayers == FrameInit /\ LayersInit /\ ResourceInit

SpecLayers == InitLayers /\ [][LayersNext]_vars

ModelNext ==
    \/ \E template \in Templates : ModelHost(template)
    \/ \E template \in Templates : ModelNew(template)
    \/ \E i \in 1..MaxModels : ModelLoad(i)

SpecModel == Init /\ [][ModelNext]_vars

(***************************************************************************)
(* Properties of event dispatch and of the frame.                          *)
(***************************************************************************)
\* the places of the log where a layer's on_event was called
Delivered == {k \in 1..Len(log) : log[k].op = "on_event"}

Dispatching == last_op.op \in {"notify_layers", "notify_all"}

\* C1: an event dispatched through notify_layers / notify_all reaches the
\* layers in reverse push order, each at most once; dispatch goes on to the
\* next layer only after a layer answered false, so it stops at the first
\* layer that consumes the event and no layer pushed before that one is
\* called; when no layer consumes (and none fails) every layer is called once.
C1_ReverseOrderUntilConsumed ==
    Dispatching =>
        /\ Len(log) <= Len(layers)
        /\ \A k \in 1..Len(log) :
            /\ log[k] = Call("on_event", Len(layers) - k + 1, event, log[k].ret)
            /\ k < Len(log) => log[k].ret = "false"
        /\ stage = "notify" =>
            /\ at = Len(layers) - Len(log)
            /\ \A k \in 1..Len(log) : log[k].ret = "false"
        /\ (stage = "idle" /\ last_op.ret = "Ok") =>
            \/ Len(log) > 0 /\ log[Len(log)].ret = "true"
            \/ Len(log) = Len(layers) /\ \A k \in 1..Len(log) : log[k].ret = "false"
        /\ (stage = "idle" /\ last_op.ret /= "Ok") =>
            Len(log) > 0 /\ log[Len(log)].ret = "err"

\* of three layers the second consumed the event: the third was called first,
\* once, and the first never
C1_Witness ==
    /\ last_op = FrameOp("notify_layers", "Ok")
    /\ Len(layers) = 3
    /\ Len(log) = 2
    /\ log[1].layer = 3 /\ log[1].ret = "false"
    /\ log[2].layer = 2 /\ log[2].ret = "true"

\* the frame recreated the swapchain: the dirty flag was found set and
\* recreate_swapchain returned the new dimensions
Recreated ==
    /\ last_op.op = "do_frame"
    /\ log /= <<>>
    /\ log[1] = Call("recreate_swapchain", 0, NoEvent, "ok")

\* C2: when do_frame finds the dirty flag set, SwapchainInvalidated goes to
\* the layers in push order whatever they answer: once delivery is over,
\* every layer of the stack was called, unless a layer failed, and a layer
\* that answered true is followed by the next layer.
C2_DeliveredToEveryLayer ==
    Recreated =>
        /\ \A k \in Delivered :
            /\ log[k].layer = k - 1
            /\ log[k].event.kind = "SwapchainInvalidated"
            /\ log[k].ret = "err" => (Delivered = 2..k /\ last_op.ret = "Err")
        /\ stage = "broadcast" => at = Cardinality(Delivered) + 1
        /\ stage /= "broadcast" =>
            \/ Delivered = 2..(Len(layers) + 1)
            \/ last_op.ret = "Err" /\ \E k \in Delivered : log[k].ret = "err"

\* the first layer consumed SwapchainInvalidated and the last layer of a
\* stack of three still received it
C2_Witness ==
    /\ Recreated
    /\ Len(layers) = 3
    /\ Len(log) >= 4
    /\ log[2].ret = "true"
    /\ log[4].op = "on_event" /\ log[4].layer = 3

\* the frame came to its image acquisition
ReachedAcquire ==
    /\ last_op.op = "do_frame"
    /\ \/ stage \in {"acquire", "draw", "present"}
       \/ \E k \in 1..Len(log) : log[k].op = "acquire_next_image"

\* C3: a do_frame that follows one or more invalidate_surface calls and
\* comes to its image acquisition has rebuilt the views, one per image of the
\* new swapchain, and has given every layer exactly one SwapchainInvalidated
\* that carries the new views, the recreated viewport and the new dimensions,
\* before the acquisition and before every on_draw of the frame.
C3_InvalidateThenFrame ==
    (ReachedAcquire /\ last_op.invalidated >= 1) =>
        /\ Recreated
        /\ Len(swapchain_images) = swapchain.image_count
        /\ swapchain_images = ViewsOf(swapchain)
        /\ viewport = create_viewport(swapchain.image_extent)
        /\ \A l \in 1..Len(layers) :
            /\ Cardinality({k \in Delivered : log[k].layer = l}) = 1
            /\ \A k \in Delivered :
                /\ log[k].event = MakeEvent("SwapchainInvalidated", swapchain_images,
                                            viewport, swapchain.image_extent)
                /\ \A j \in 1..Len(log) :
                    log[j].op \in {"acquire_next_image", "on_draw"} => k < j

\* two invalidate_surface calls, a resized window, then a whole frame over
\* two layers whose new swapchain has fewer images than the first one
C3_Witness ==
    /\ last_op = [op |-> "do_frame", ret |-> "Ok", invalidated |-> 2]
    /\ Len(layers) = 2
    /\ swapchain.image_extent = 2
    /\ Len(swapchain_images) = 1
    /\ \E k \in 1..Len(log) : log[k].op = "on_draw"

(***************************************************************************)
(* Properties of the scene.                                                *)
(***************************************************************************)
HasMesh(entity) == entity.mesh /= <<>>

TemplateOf(entity) == entity.mesh[1].model.material_template_id

\* where the entity of an identity is: in the groups, in the loading list
GroupPlaces(groups, id) ==
    {p \in UNION {{<<g, k>> : k \in 1..Len(groups[g].entities)} : g \in 1..Len(groups)} :
        groups[p[1]].entities[p[2]].id = id}

LoadingPlaces(id) == {k \in 1..Len(loading_list) : loading_list[k].id = id}

\* C4: every mesh-bearing entity Scene::add was called with is in exactly
\* one place of exactly one group, and that group's material_template_id is
\* the one of the model of the entity's mesh.
C4_OneGroupOfOwnTemplate ==
    \A i \in 1..Len(add_calls) :
        HasMesh(add_calls[i]) =>
            LET places == GroupPlaces(data, add_calls[i].id)
            IN  /\ Cardinality(places) = 1
                /\ \A p \in places :
                    /\ data[p[1]].entities[p[2]] = add_calls[i]
                    /\ data[p[1]].material_template_id = TemplateOf(add_calls[i])

\* three adds made two groups, the first of them for the second template and
\* holding two entities
C4_Witness ==
    /\ scene_op = Op("add", "Ok")
    /\ Len(data) = 2
    /\ data[1].material_template_id = 1
    /\ Len(data[1].entities) = 2
    /\ Len(data[2].entities) = 1

\* the add calls made with a mesh-bearing entity, in their order
MeshAdds == SelectSeq(add_calls, HasMesh)

\* the entities of each template held by the groups
GroupSizes(groups) ==
    [t \in Templates |->
        Cardinality({p \in UNION {{<<g, k>> : k \in 1..Len(groups[g].entities)} :
                                     g \in 1..Len(groups)} :
                        groups[p[1]].material_template_id = t})]

\* the orders n calls can be made in
Orders ==
    [n \in 0..MaxEntities |->
        {f \in [1..n -> 1..n] : \A i, j \in 1..n : f[i] = f[j] => i = j}]

\* the scene the calls leave when made in the order f
Reordered(calls, f) ==
    AddAll(EmptyScene, [i \in 1..Len(calls) |-> calls[f[i]]], 1, Len(calls))

\* C5: the groups are as many as the distinct template ids of the
\* mesh-bearing entities added, one group per template, and the same calls
\* made in any other order leave as many groups with as many entities for
\* each template.
C5_GroupsAreTemplates ==
    /\ Len(data) = Cardinality({TemplateOf(MeshAdds[i]) : i \in 1..Len(MeshAdds)})
    /\ \A g, h \in 1..Len(data) :
        data[g].material_template_id = data[h].material_template_id => g = h
    /\ \A calls \in {MeshAdds} \cup {c \in {add_calls} : Len(c) <= MaxEntities} :
        \A f \in Orders[Len(calls)] :
            /\ Len(Reordered(calls, f).data) = Len(data)
            /\ GroupSizes(Reordered(calls, f).data) = GroupSizes(data)

\* two entities of one template with one of another between them: two
\* groups, sizes two and one
C5_Witness ==
    /\ Len(add_calls) = 3
    /\ \A i \in 1..3 : HasMesh(add_calls[i])
    /\ TemplateOf(add_calls[1]) = TemplateOf(add_calls[3])
    /\ TemplateOf(add_calls[1]) /= TemplateOf(add_calls[2])
    /\ Len(data) = 2
    /\ GroupSizes(data)[TemplateOf(add_calls[1])] = 2

\* C6: whatever add and instantiate_models calls were made and whatever they
\* returned, every entity handed to the scene is in exactly one place: one
\* place of one group, or one place of the loading list.
C6_InGroupOrLoadingList ==
    scene_op.ret \in {"Ok", "Err"} =>
        \A id \in handed :
            Cardinality(GroupPlaces(data, id)) + Cardinality(LoadingPlaces(id)) = 1

(***************************************************************************)
(* Properties of the recording.                                            *)
(***************************************************************************)
Recorded == scene_op = Op("record_secondary_buffers", "ok")

\* the buffers that bind the pipeline of a group's template
BuffersOf(group) ==
    {b \in 1..Len(cbs) :
        cbs[b].pipeline = registry_get(material_registry, group.material_template_id).pipeline}

\* the draws of a set of buffers
DrawsOf(buffers) ==
    UNION {{<<b, d>> : d \in 1..Len(cbs[b].draws)} : b \in buffers}

\* the draw recorded for an entity with a mesh
DrawOf(entity) ==
    [vertex_buffer |-> entity.mesh[1].model.data[1], model_set |-> entity.mesh[1].model_set]

\* C7: after a recording, the buffers of a group of N > 12 entities hold
\* N draws together, and each entity of the group has exactly one of them,
\* with its own vertex buffer and transform set.
C7_ChunksPartitionGroup ==
    Recorded =>
        \A g \in 1..Len(data) :
            Len(data[g].entities) > ChunkDivisor =>
                LET draws == DrawsOf(BuffersOf(data[g]))
                IN  /\ Cardinality(draws) = Len(data[g].entities)
                    /\ \A k \in 1..Len(data[g].entities) :
                        Cardinality({p \in draws : cbs[p[1]].draws[p[2]]
                                        = DrawOf(data[g].entities[k])}) = 1

\* a group of 25 entities was recorded in chunks of two and a last chunk of one
C7_Witness ==
    /\ Recorded
    /\ Len(data[1].entities) = 2 * ChunkDivisor + 1
    /\ \E b \in BuffersOf(data[1]) : Len(cbs[b].draws) = 1
    /\ \E b \in BuffersOf(data[1]) : Len(cbs[b].draws) = 2

\* every model of a mesh in the groups is on the device
AllOnDevice ==
    \A g \in 1..Len(data) : \A k \in 1..Len(data[g].entities) :
        /\ HasMesh(data[g].entities[k])
        /\ data[g].entities[k].mesh[1].model.data /= <<>>

\* C8: a recording of a scene that has a group of 1 <= N <= 12 entities
\* completes, and that group is one buffer that holds the N draws.
C8_OneBufferBelowThreshold ==
    (scene_op.op = "record_secondary_buffers" /\ AllOnDevice) =>
        \A g \in 1..Len(data) :
            Len(data[g].entities) <= ChunkDivisor =>
                /\ scene_op.ret = "ok"
                /\ Cardinality(BuffersOf(data[g])) = 1
                /\ \A b \in BuffersOf(data[g]) : Len(cbs[b].draws) = Len(data[g].entities)

\* the group a buffer was recorded for
GroupOfBuffer(b) == CHOOSE g \in 1..Len(data) : b \in BuffersOf(data[g])

\* C9: in the recorded list the buffers of one group are consecutive and
\* the groups follow one another in the scene's order; each buffer binds the
\* pipeline of one registered template and holds draws of entities of that
\* template's group only, whichever chunks the workers finished first.
C9_GroupedByMaterial ==
    Recorded =>
        /\ \A b \in 1..Len(cbs) :
            /\ \E g \in 1..Len(data) : b \in BuffersOf(data[g])
            /\ \A d \in 1..Len(cbs[b].draws) :
                GroupPlaces(data, cbs[b].draws[d].model_set) /= {}
                /\ \A p \in GroupPlaces(data, cbs[b].draws[d].model_set) :
                    p[1] = GroupOfBuffer(b)
        /\ \A a, b \in 1..Len(cbs) : a < b => GroupOfBuffer(a) <= GroupOfBuffer(b)
        /\ \A a, b, c \in 1..Len(cbs) :
            (a < b /\ b < c /\ cbs[a].pipeline = cbs[c].pipeline) =>
                cbs[b].pipeline = cbs[a].pipeline

\* two groups were recorded and the first chunk of the first group was
\* finished late: the list does not begin with it
C9_Witness ==
    /\ Recorded
    /\ Len(data) = 2
    /\ cbs[1].draws[1].model_set /= data[1].entities[1].id
    /\ cbs[Len(cbs)].pipeline /= cbs[1].pipeline

\* the entities the scene holds
SceneEntities ==
    {data[p[1]].entities[p[2]] :
        p \in UNION {{<<g, k>> : k \in 1..Len(data[g].entities)} : g \in 1..Len(data)}}
    \cup {loading_list[k] : k \in 1..Len(loading_list)}

\* the identities a draw was recorded for
DrawnIds == {cbs[p[1]].draws[p[2]].model_set : p \in DrawsOf(1..Len(cbs))}

\* the identities handed to the scene as dynamic entities
DynamicIds == {add_calls[i].id : i \in {j \in 1..Len(add_calls) : ~HasMesh(add_calls[j])}}

\* C10: an instantiate that returns Ok leaves the entity with its mesh
\* and without its parameters, and no instantiate of that entity returns Ok
\* or changes it again; the dynamic entities found in the groups are such
\* entities; and a recording draws an entity of the scene if and only if its
\* mesh is present.
C10_InstantiateOnceDrawIffMesh ==
    /\ \A entity \in SceneEntities \cup {add_calls[i] : i \in 1..Len(add_calls)} :
        \A outcome \in InstantiateOutcomes :
            LET r == instantiate(entity, outcome)
            IN  r.ret = "Ok" =>
                    /\ r.entity.mesh /= <<>>
                    /\ r.entity.mesh_parameters = <<>>
                    /\ \A again \in InstantiateOutcomes :
                        /\ instantiate(r.entity, again).ret /= "Ok"
                        /\ instantiate(r.entity, again).entity = r.entity
    /\ \A id \in DynamicIds : \A p \in GroupPlaces(data, id) :
        /\ data[p[1]].entities[p[2]].mesh /= <<>>
        /\ data[p[1]].entities[p[2]].mesh_parameters = <<>>
    /\ Recorded => \A entity \in SceneEntities : HasMesh(entity) <=> entity.id \in DrawnIds

\* a dynamic entity was instantiated, added to a group and drawn
C10_Witness ==
    /\ Recorded
    /\ \E id \in DynamicIds : GroupPlaces(data, id) /= {} /\ id \in DrawnIds

(***************************************************************************)
(* Properties of the resources.                                            *)
(***************************************************************************)
\* C11: the storage of a model only goes from Host to Device. A load that
\* returns Ok on a Host model makes it Device-resident; any load of a
\* Device-resident model returns AlreadyLoaded and changes no field of it;
\* and no step of any operation takes a Device-resident model back to Host
\* or gives it another buffer.
C11_HostToDeviceOnly ==
    /\ [](\A i \in 1..Len(models) : \A outcome \in LoadOutcomes :
            LET r == load(models[i], outcome, FreshBuffer)
            IN  /\ (~is_loaded(models[i]) /\ r.ret = "Ok") =>
                    (is_loaded(r.model) /\ model_data(r.model) = <<FreshBuffer>>)
                /\ is_loaded(models[i]) =>
                    (r.ret = "AlreadyLoaded" /\ r.model = models[i])
                /\ r.model.material_template_id = models[i].material_template_id)
    /\ [][\A i \in 1..Len(models) :
            /\ is_loaded(models[i]) => models'[i] = models[i]
            /\ (resource_op'.op = "load" /\ resource_op'.on = i /\ is_loaded(models[i]))
                  => resource_op'.ret = "AlreadyLoaded"
            /\ (~is_loaded(models[i]) /\ is_loaded(models'[i])) =>
                  resource_op' = ResourceOp("load", i, "Ok")]_vars

\* a model made on the host was loaded, and a second load of it returned
\* AlreadyLoaded with the buffer in place
C11_Witness ==
    /\ resource_op = ResourceOp("load", 1, "AlreadyLoaded")
    /\ Len(models) >= 2
    /\ is_loaded(models[1])
    /\ ~is_loaded(models[2])
    /\ \E j \in 2..Len(models) : is_loaded(models[j]) /\ models[j].data[1] < models[1].data[1]

(***************************************************************************)
(* Properties of the callback of Application::run.                         *)
(***************************************************************************)
\* the on_tick calls of the invocation under way
Ticks == SelectSeq(log, LAMBDA c : c.op = "on_tick")

\* C12: in an invocation of the callback on_tick is called on every layer
\* once, in push order, and all the ticks are made before any on_event or
\* on_draw of that invocation: the ticks are the head of the invocation's
\* calls, the k-th of them is on layer k, and once the loop is left every
\* layer was ticked.
C12_TicksFirstInPushOrder ==
    callback.event /= "none" =>
        /\ \A k \in 1..Len(log) : (log[k].op = "on_tick") <=> (k <= Len(Ticks))
        /\ \A k \in 1..Len(Ticks) : log[k].layer = k /\ log[k].ret = "ok"
        /\ Len(Ticks) <= Len(layers)
        /\ (stage /= "tick" /\ last_op.ret /= "panic") => Len(Ticks) = Len(layers)
        /\ stage = "tick" => at = Len(Ticks) + 1

\* a redraw invocation that ticked the three layers, then delivered
\* SwapchainInvalidated and drew
C12_Witness ==
    /\ callback.event = "RedrawEventsCleared"
    /\ Len(layers) = 3
    /\ Len(Ticks) = 3
    /\ \E k \in 1..Len(log) : log[k].op = "on_event"
    /\ \E k \in 1..Len(log) : log[k].op = "on_draw" /\ log[k].layer = 3

(***************************************************************************)
(* Properties of the draw chain.                                           *)
(***************************************************************************)
\* the work of a chain runs in the order acquisition, layers in push order,
\* presentation
InOrder(future) ==
    /\ future /= <<>>
    /\ future[1] = 0
    /\ \A k \in 2..Len(future) :
        \/ future[k] > future[k - 1]
        \/ k = Len(future) /\ future[k] = PresentWork

\* C13: within a do_frame the k-th on_draw is on layer k, the first is
\* given the acquisition future, each following one is given the future the
\* layer before returned, and the chain that is presented and flushed is the
\* last layer's future followed by the presentation, its work in the order
\* acquisition, layers in push order, presentation.
C13_FutureThreadedThroughLayers ==
    last_op.op = "do_frame" =>
        /\ \A k \in 1..Len(draw_calls) : draw_calls[k].layer = k
        /\ Len(draw_calls) >= 1 => draw_calls[1].in_future = AcquireFuture
        /\ \A k \in 1..(Len(draw_calls) - 1) : draw_calls[k + 1].in_future = draw_calls[k].out
        /\ stage = "draw" =>
              in_future = IF at = 1 THEN AcquireFuture ELSE draw_calls[at - 1].out
        /\ stage = "present" =>
              /\ Len(draw_calls) = Len(layers)
              /\ in_future = IF Len(layers) = 0 THEN AcquireFuture
                             ELSE draw_calls[Len(layers)].out
        /\ submitted /= <<>> =>
              /\ Len(draw_calls) = Len(layers)
              /\ submitted = then_swapchain_present(
                                IF Len(layers) = 0 THEN AcquireFuture
                                ELSE draw_calls[Len(layers)].out)
              /\ InOrder(submitted)
              /\ \A i \in 1..Len(layers) : \E k \in 1..Len(submitted) : submitted[k] = i

\* a frame over three layers was presented
C13_Witness ==
    /\ last_op.op = "do_frame"
    /\ last_op.ret = "Ok"
    /\ Len(layers) = 3
    /\ submitted = <<0, 1, 2, 3, PresentWork>>

(***************************************************************************)
(* Properties of the match on the window events.                           *)
(***************************************************************************)
\* the on_event calls of the invocation under way
EventCalls == SelectSeq(log, LAMBDA c : c.op = "on_event")

\* the invocation under way is past the match on its event
Matched == callback.event /= "none" /\ stage \notin {"tick", "match"}

\* the invocation under way has returned without a panic
Returned == Matched /\ stage = "idle" /\ last_op.ret /= "panic"

\* C14 as stated: neither Resized nor CloseRequested causes an on_event call
\* on any layer; Resized sets need_swapchain_recreation and CloseRequested
\* sets the flow to Exit.
C14_ResizeAndCloseIntercepted ==
    /\ callback.event \in {"Resized", "CloseRequested"} => EventCalls = <<>>
    /\ (Matched /\ callback.event = "Resized") => need_swapchain_recreation
    /\ (Matched /\ callback.event = "CloseRequested") => flow = "Exit"

\* C14 amended: CloseRequested sets the flow to Exit and no layer's on_event
\* is called for it; Resized sets need_swapchain_recreation and is then
\* dispatched as WindowResized through notify_layers, top layer first, and
\* no other event reaches a layer in that invocation.
C14_CloseInterceptedResizeForwarded ==
    /\ callback.event = "CloseRequested" => EventCalls = <<>>
    /\ (Matched /\ callback.event = "CloseRequested") => flow = "Exit"
    /\ (Matched /\ callback.event = "Resized") => need_swapchain_recreation
    /\ callback.event = "Resized" =>
        /\ \A k \in 1..Len(EventCalls) :
            /\ EventCalls[k].event = PlainEvent("WindowResized")
            /\ EventCalls[k].layer = Len(layers) + 1 - k
        /\ (Returned /\ Len(layers) > 0) =>
            /\ EventCalls /= <<>>
            /\ EventCalls[Len(EventCalls)].layer = 1
               \/ EventCalls[Len(EventCalls)].ret = "true"

\* a Resized invocation has set the flag and delivered WindowResized down to
\* the first layer
C14_Witness ==
    /\ callback.event = "Resized"
    /\ Returned
    /\ need_swapchain_recreation
    /\ Len(EventCalls) = 3
    /\ EventCalls[3] = Call("on_event", 1, PlainEvent("WindowResized"), "false")

(***************************************************************************)
(* Properties of the stack Application::new builds.                        *)
(***************************************************************************)
\* the on_draw calls of the invocation under way
DrawCalls == SelectSeq(log, LAMBDA c : c.op = "on_draw")

\* the layer kind a call was made on
KindOf(c) == layers[c.layer]

\* with the stack `stack`, an event dispatched by notify_layers goes to the
\* last layer first and to each earlier one only if no layer consumed it, and
\* the draw chain of a frame goes from the first layer to the last
StackOrder(stack) ==
    /\ layers = stack
    /\ last_op.op = "notify_layers" =>
        /\ \A k \in 1..Len(EventCalls) : EventCalls[k].layer = Len(stack) + 1 - k
        /\ \A k \in 1..(Len(EventCalls) - 1) : EventCalls[k].ret = "false"
        /\ Returned => (EventCalls /= <<>> /\ KindOf(EventCalls[1]) = "Gui")
        /\ (Returned /\ \A k \in 1..Len(EventCalls) : EventCalls[k].ret = "false") =>
              KindOf(EventCalls[Len(EventCalls)]) = "World"
    /\ last_op.op = "do_frame" =>
        /\ \A k \in 1..Len(DrawCalls) : DrawCalls[k].layer = k
        /\ DrawCalls /= <<>> => KindOf(DrawCalls[1]) = "World"
        /\ stage = "present" => KindOf(DrawCalls[Len(DrawCalls)]) = "Gui"

AcquiredAt(result) ==
    {k \in 1..Len(log) : log[k].op = "acquire_next_image" /\ log[k].ret = result}

\* a step that begins a do_frame
FrameBegins == last_op'.op = "do_frame" /\ last_op'.ret = "run" /\ stage = "idle"

\* C16: when the acquisition of a frame reports suboptimal, the flag is set,
\* and in the rest of that frame the swapchain is not recreated and
\* SwapchainInvalidated is not delivered: the draw chain and the present run
\* with the swapchain, views and viewport the frame acquired from. The next
\* do_frame begins with the recreation, and the broadcast follows it.
C16_SuboptimalRecreatesNextFrame ==
    /\ [](last_op.op = "do_frame" =>
            \A k \in AcquiredAt("suboptimal") :
                /\ need_swapchain_recreation
                /\ \A j \in (k + 1)..Len(log) : log[j].op \in {"on_draw", "present"})
    /\ [][(stage \in {"acquire", "draw", "present"}) =>
            (swapchain' = swapchain /\ swapchain_images' = swapchain_images
             /\ viewport' = viewport)]_vars
    /\ [][(FrameBegins /\ need_swapchain_recreation) => stage' = "recreate"]_vars
    /\ [][(stage = "recreate" /\ stage' /= "idle") =>
            /\ log' = <<Call("recreate_swapchain", 0, NoEvent, "ok")>>
            /\ event'.kind = "SwapchainInvalidated"
            /\ stage' = IF Len(layers) = 0 THEN "acquire" ELSE "broadcast"]_vars

\* a frame acquired a suboptimal image from a swapchain it did not recreate,
\* drew on both layers and presented
C16_Witness ==
    /\ last_op.op = "do_frame"
    /\ last_op.ret = "Ok"
    /\ Len(layers) = 2
    /\ log = <<Call("acquire_next_image", 0, NoEvent, "suboptimal"),
               Call("on_draw", 1, NoEvent, "ok"),
               Call("on_draw", 2, NoEvent, "ok"),
               Call("present", 0, NoEvent, "ok")>>
    /\ need_swapchain_recreation

\* C17: when the acquisition fails, do_frame returns the error: the failed
\* acquire is the frame's only acquire and its last call, no on_draw is
\* made and nothing is flushed or presented.
C17_AcquireErrorEndsFrame ==
    last_op.op = "do_frame" =>
        /\ Cardinality({k \in 1..Len(log) : log[k].op = "acquire_next_image"}) <= 1
        /\ \A k \in AcquiredAt("err") :
            /\ k = Len(log)
            /\ last_op.ret = "Err"
            /\ stage = "idle"
            /\ draw_calls = <<>>
            /\ \A j \in 1..Len(log) : log[j].op \notin {"on_draw", "present"}
            /\ submitted = <<>>

\* a frame over two layers recreated the swapchain, delivered the event and
\* then failed to acquire
C17_Witness ==
    /\ last_op.op = "do_frame"
    /\ Len(layers) = 2
    /\ Len(log) = 4
    /\ log[1].op = "recreate_swapchain"
    /\ log[4] = Call("acquire_next_image", 0, NoEvent, "err")

C19_GetOrLoadAnyName ==
    \A name \in RegistryNames :
        LET r == get_or_load(material_registry, name, "ok")
        IN  IF get_id(material_registry, name) /= <<>>
            THEN /\ r.ret = "Ok"
                 /\ r.id = material_registry.names[name]
                 /\ r.registry = material_registry
            ELSE /\ r.ret = "Ok"
                 /\ Len(r.registry.data) = Len(material_registry.data) + 1
                 /\ get_id(r.registry, name) = <<r.id>>
                 /\ \A n \in DOMAIN material_registry.names :
                        r.registry.names[n] = material_registry.names[n]
                 /\ get_or_load(r.registry, name, "ok") =
                        RegistryResult(r.registry, "Ok", r.id)

\* the templates stored in the registry
Stored == material_registry.data

\* C20: a template's pipeline is replaced whole and under the lock. A
\* recreation that fails returns the error and leaves the template, its
\* pipeline and its shader modules as they were; one that succeeds stores a
\* pipeline built from the same shader modules for the new viewport. While a
\* recording holds the lock no template changes, so every pipeline it has
\* read is the one stored, built whole for one viewport.
C20_PipelineSwappedUnderLock ==
    /\ [](\A i \in 1..Len(Stored) : \A vp \in 1..NumSizes :
            LET failed == recreate_pipeline(Stored[i], vp, "err")
                built == recreate_pipeline(Stored[i], vp, "ok")
            IN  /\ failed.ret = "Err"
                /\ failed.mat = Stored[i]
                /\ built.ret = "Ok"
                /\ pipeline(built.mat) = create_pipeline(Stored[i].vs, Stored[i].fs, vp)
                /\ built.mat.vs = Stored[i].vs
                /\ built.mat.fs = Stored[i].fs)
    /\ [][(resource_op'.op = "recreate_pipelines" /\ resource_op'.ret = "Err") =>
            material_registry' = material_registry]_vars
    /\ [][reader.holds => material_registry' = material_registry]_vars
    /\ [](reader.holds =>
            \A k \in 1..Len(reader.observed) :
                /\ reader.observed[k].pipeline =
                      pipeline(registry_get(material_registry, reader.observed[k].id))
                /\ \E vp \in 1..NumSizes :
                      reader.observed[k].pipeline =
                          create_pipeline(reader.observed[k].id, reader.observed[k].id, vp))

\* a recreation for a second viewport rebuilt the first template and failed
\* at the second; a recording then read both pipelines under its guard
C20_Witness ==
    /\ resource_op.op = "recreate_pipelines"
    /\ resource_op.ret = "Err"
    /\ Len(Stored) = 2
    /\ pipeline(Stored[1]).viewport = 2
    /\ pipeline(Stored[2]).viewport = 1
    /\ reader.holds
    /\ Len(reader.observed) = 2
    /\ reader.observed[1].id /= reader.observed[2].id

MeshXorParameters(entity) == (entity.mesh = <<>>) /= (entity.mesh_parameters = <<>>)

\* C28: every entity holds exactly one of a mesh and pending parameters:
\* the entities of the groups and of the loading list do, and so does an
\* entity of the loading list after Entity::instantiate was called on it,
\* whatever it returned; after an error the parameters are still in place.
C28_MeshXorParametersAlways ==
    /\ \A g \in 1..Len(data) : \A k \in 1..Len(data[g].entities) :
          MeshXorParameters(data[g].entities[k])
    /\ \A k \in 1..Len(loading_list) :
          /\ MeshXorParameters(loading_list[k])
          /\ \A outcome \in InstantiateOutcomes :
                LET r == instantiate(loading_list[k], outcome)
                IN  /\ MeshXorParameters(r.entity)
                    /\ r.ret /= "Ok" =>
                          r.entity.mesh_parameters = loading_list[k].mesh_parameters

(***************************************************************************)
(* Properties of the dirty flag.                                           *)
(***************************************************************************)
\* the last operation was a do_frame that recreated the swapchain, acquired
\* an image that was not suboptimal and returned Ok; invalidate_surface was
\* not called since it began
RecreatedCleanly ==
    /\ Recreated
    /\ last_op.ret = "Ok"
    /\ AcquiredAt("suboptimal") = {}
    /\ AcquiredAt("ok") /= {}
    /\ invalidate_calls = 0

\* C27: the recreation consumes the dirty flag: a do_frame that follows a
\* do_frame which recreated the swapchain, with no invalidate_surface in
\* between and no suboptimal acquisition, goes to the acquisition; it does
\* not recreate the swapchain or deliver SwapchainInvalidated.
C27_RecreationConsumesFlag ==
    [][(RecreatedCleanly /\ FrameBegins) => stage' = "acquire"]_vars

(***************************************************************************)
(* Properties of the ticks of the event loop.                              *)
(***************************************************************************)
\* a do_frame call was made that had a do_frame call before it
SecondFrame == ticked.frames >= 2

\* C26: between two consecutive do_frame calls the on_tick of every layer
\* is called exactly once, however many events are delivered in between.
C26_OneTickPerFrame ==
    SecondFrame => ticked.at_frame.ticks = Len(layers)

\* C26, as the code has it: the on_tick of every layer is called once in
\* every invocation of the callback, so between two consecutive do_frame
\* calls it is called once for the RedrawEventsCleared callback and once
\* more for every event delivered in between.
C26_OneTickPerCallback ==
    SecondFrame =>
        /\ ticked.at_frame.callbacks >= 1
        /\ ticked.at_frame.ticks = Len(layers) * ticked.at_frame.callbacks

\* two events were delivered between two do_frame calls, and every layer
\* was ticked three times
C26_Witness ==
    /\ SecondFrame
    /\ ticked.at_frame.callbacks = 3
    /\ ticked.at_frame.ticks = 3 * Len(layers)
    /\ Len(layers) = 3

(***************************************************************************)
(* Properties of recreate_pipelines.                                       *)
(***************************************************************************)
\* a recreate_pipelines call is in its loop
Recreating == writer.at > 0

\* template j holds a pipeline for the viewport of the registry
Current(j) == pipeline(Stored[j]).viewport = material_registry.viewport

\* C24: recreate_pipelines calls recreate_pipeline on the templates one by
\* one in the order of registration. The templates before the one it is at
\* hold pipelines for the new viewport; a step changes no other template
\* than the one it is at; when a call fails the error is returned at once,
\* nothing is changed by that step and no later template is touched; Ok is
\* returned only past the last template, and then every template holds a
\* pipeline for the new viewport.
C24_RecreateInOrderUntilError ==
    /\ [](Recreating => \A j \in 1..Len(Stored) : j < writer.at => Current(j))
    /\ []((resource_op.op = "recreate_pipelines" /\ resource_op.ret = "Ok") =>
            \A j \in 1..Len(Stored) : Current(j))
    /\ [][Recreating =>
            /\ writer'.at \in {0, writer.at + 1}
            /\ material_registry'.viewport = material_registry.viewport
            /\ Len(material_registry'.data) = Len(Stored)
            /\ \A j \in 1..Len(Stored) :
                  j /= writer.at => material_registry'.data[j] = Stored[j]
            /\ (resource_op'.ret = "Err" =>
                  material_registry' = material_registry /\ writer'.at = 0)
            /\ (resource_op'.ret = "Ok" => writer.at > Len(Stored))
            /\ (resource_op'.ret = "run" =>
                  pipeline(material_registry'.data[writer.at]).viewport
                      = material_registry.viewport)]_vars

\* a recreation for the second viewport returned the error of the second
\* template: the first holds its new pipeline, the second its old one
C24_Witness ==
    /\ resource_op.op = "recreate_pipelines"
    /\ resource_op.ret = "Err"
    /\ ~Recreating
    /\ Len(Stored) = 2
    /\ material_registry.viewport = 2
    /\ Current(1)
    /\ ~Current(2)

(***************************************************************************)
(* Properties of the chunks of a recording.                                *)
(***************************************************************************)
\* the draws of buffer b are those of entities of the group that follow one
\* another in the group's list, in the order of the list
Contiguous(group, b) ==
    \E start \in 1..Len(group.entities) :
        /\ start + Len(cbs[b].draws) - 1 <= Len(group.entities)
        /\ \A d \in 1..Len(cbs[b].draws) :
              cbs[b].draws[d] = DrawOf(group.entities[start + d - 1])

\* all buffers of the group hold N div 12 draws, but for at most one that
\* holds fewer
RoughlyEqual(group) ==
    LET chunk_size == Len(group.entities) \div ChunkDivisor
        short == {b \in BuffersOf(group) : Len(cbs[b].draws) /= chunk_size}
    IN  /\ Cardinality(short) <= 1
        /\ \A b \in short : 0 < Len(cbs[b].draws) /\ Len(cbs[b].draws) < chunk_size

\* C23: after a recording, a group of N > 12 entities is cut into at most
\* 13 chunks of roughly equal size, each a contiguous piece of the group's
\* list, and the draws of a chunk are in the order of the list.
C23_AtMostThirteenChunks ==
    Recorded =>
        \A g \in 1..Len(data) :
            Len(data[g].entities) > ChunkDivisor =>
                /\ Cardinality(BuffersOf(data[g])) <= ChunkDivisor + 1
                /\ RoughlyEqual(data[g])
                /\ \A b \in BuffersOf(data[g]) : Contiguous(data[g], b)

\* C23, as the code has it: the chunk size is N div 12, so the group is cut
\* into at least 12 and fewer than 24 chunks (23 chunks of one entity for
\* N = 23); the chunks are of that size but for a shorter last one, each a
\* contiguous piece of the group's list with its draws in the order of the
\* list.
C23_TwelveToTwentyThreeChunks ==
    Recorded =>
        \A g \in 1..Len(data) :
            Len(data[g].entities) > ChunkDivisor =>
                /\ Cardinality(BuffersOf(data[g])) >= ChunkDivisor
                /\ Cardinality(BuffersOf(data[g])) < 2 * ChunkDivisor
                /\ RoughlyEqual(data[g])
                /\ \A b \in BuffersOf(data[g]) : Contiguous(data[g], b)

\* a group of 23 entities was recorded as 23 buffers
C23_Witness ==
    /\ Recorded
    /\ Len(data[1].entities) = 2 * ChunkDivisor - 1
    /\ Cardinality(BuffersOf(data[1])) = 2 * ChunkDivisor - 1

(***************************************************************************)
(* Properties of the layer callbacks and their locks.                      *)
(***************************************************************************)
\* the workers of a frame are recording
Recording == threads["draw"].at = "materials"

\* C22: while the workers record the chunks of a frame, the groups and the
\* entity lists of the scene and the templates of the registry are not
\* changed, no lock is taken, and neither Scene::add nor recreate_pipelines
\* runs: every step from a state in which a recording is under way leaves
\* the scene and the registry as they are and, until the recording has
\* ended, the locks as well.
C22_RecordingOnlyReads ==
    [][Recording =>
          /\ data' = data
          /\ loading_list' = loading_list
          /\ material_registry' = material_registry
          /\ add_calls' = add_calls
          /\ (threads'["draw"].at = "materials" => locks' = locks)]_vars

\* a group that grew by an add was recorded, chunk by chunk, while the
\* other callbacks wait for a lock
C22_Witness ==
    /\ Recording
    /\ threads["draw"].group > 1
    /\ Len(cbs) > ChunkDivisor
    /\ threads["test"].at = "idle"
    /\ threads["resize"].at = "idle"

\* the locks a callback holds
HeldBy(path) == {l \in Locks : locks[l] = path}

\* C25: a layer callback holds at most one of the locks of the scene and
\* the registries at any point: it never takes a second lock while it holds
\* one.
C25_AtMostOneLockHeld ==
    \A path \in Paths : Cardinality(HeldBy(path)) <= 1

\* two callbacks each hold a lock that the other one takes next
LockOrderDeadlock ==
    \E p \in Paths, q \in Paths :
        /\ p /= q
        /\ NextLock(p) /= <<>>
        /\ NextLock(q) /= <<>>
        /\ locks[NextLock(p)[1]] = q
        /\ locks[NextLock(q)[1]] = p

\* C29: the locks are taken in one order on every path, so that with the
\* callbacks on threads of their own no two of them wait for each other:
\* no state is reached in which each of two callbacks holds the lock the
\* other takes next.
C29_NoLockOrderDeadlock == ~LockOrderDeadlock

(***************************************************************************)
(* Properties of the viewport of the registry.                             *)
(***************************************************************************)
\* every template holds a pipeline for the viewport of the registry
AllCurrent == \A j \in 1..Len(Stored) : Current(j)

\* C30: after get_or_load calls and recreate_pipelines calls that returned
\* Ok, every template holds a pipeline built for the viewport the registry
\* holds: a new registry has no template, a recreation that returned Ok
\* leaves every pipeline built for the viewport it was called with, a call
\* outside a recreation keeps it so, and a template that get_or_load makes
\* is built for the viewport of the last recreate_pipelines call.
C30_PipelinesForCurrentViewport ==
    /\ [](Stored = <<>> => AllCurrent)
    /\ []((resource_op.op = "recreate_pipelines" /\ resource_op.ret = "Ok") => AllCurrent)
    /\ [][(AllCurrent /\ ~Recreating /\ writer'.at = 0) =>
            \A j \in 1..Len(material_registry'.data) :
                pipeline(material_registry'.data[j]).viewport
                    = material_registry'.viewport]_vars
    /\ [][(resource_op'.op = "get_or_load"
           /\ Len(material_registry'.data) > Len(Stored)) =>
            /\ material_registry'.viewport = material_registry.viewport
            /\ pipeline(material_registry'.data[Len(Stored) + 1]).viewport
                   = material_registry.viewport]_vars

\* "simple" was loaded after a recreation for the second viewport and holds
\* a pipeline for it, as does the template registered before
C30_Witness ==
    /\ resource_op = RegistryOp("get_or_load", "simple", "Ok", 1)
    /\ material_registry.viewport = 2
    /\ Len(Stored) = 2
    /\ AllCurrent

====
